---- MODULE Spec2Model ----
(***************************************************************************)
(* Model of the community-initiatives backend: the document store         *)
(* (initiatives, events, messages), the request handlers that read and    *)
(* write it, the auth middleware and the listing pagination.               *)
(*                                                                         *)
(* A request handler is a sequence of steps separated by its awaits: the  *)
(* first step of a handler is its first store call (findById, or the      *)
(* first save of a create handler), the following steps are the code      *)
(* between two awaits.  req[s] is the request being handled in slot s.     *)
(* The sequential specifications use slot 1 only.                          *)
(***************************************************************************)
EXTENDS Integers, Sequences, FiniteSets, TLC

VARIABLES
  initiatives,         \* the Initiative collection, by identifier
  createdInitiatives,  \* the createdInitiatives list of every user
  events,              \* the Event collection, by identifier
  req,                 \* the request handled in every slot
  messages,            \* the Message collection, by identifier
  now,                 \* the clock read by new Date()
  authReq,             \* the request passing through the auth middleware
  listing,             \* the listing request being answered
  eventBody,           \* history: the body each event was created with
  lastLike,            \* history: the last like call that saved
  behind,              \* the slots whose loaded document has an older version
                       \* than the stored one
  donations,           \* the Donation collection, by identifier
  statusPuts,          \* history: the donations an admin sent a status for
  notifications,       \* the Notification collection, by identifier
  scoreCall,           \* the last call of a score method
  userReq              \* the request passing through the users router

eventVars == <<events, eventBody>>

initiativeVars == <<initiatives, createdInitiatives, lastLike, behind>>

donationVars == <<donations, statusPuts>>

\* what the handlers of the first routers leave alone
restVars == <<donationVars, notifications, scoreCall, userReq>>

messageVars == <<messages, now>>

\* what the handlers of initiatives and events leave alone
otherVars == <<messages, now, authReq, listing, restVars>>

vars == <<initiatives, createdInitiatives, lastLike, behind, eventVars, req, otherVars>>

----------------------------------------------------------------------------
(* Bounds *)

MaxInitiatives == 1
MaxEvents == 1

----------------------------------------------------------------------------
(* Users and roles *)

Users == {"u1", "u2", "u3"}

Role == [u1 |-> "user", u2 |-> "moderator", u3 |-> "admin"]

----------------------------------------------------------------------------
(* Documents *)

\* result of findById when no document has the identifier; also the value
\* of a removed document's slot (identifiers are never reused)
NoDoc == [removed |-> TRUE]

\* a request without a body
NoBody == [empty |-> TRUE]

\* the value of the token when the request has no Authorization header
NoToken == [kind |-> "undefined"]

\* a Date path that is not set; the clock starts after it
NoDate == 0

Gcd(a, b) ==
  LET RECURSIVE G(_, _)
      G(x, y) == IF y = 0 THEN x ELSE G(y, x % y)
  IN G(a, b)

\* the Number n / d, kept as a reduced fraction
Quot(n, d) ==
  LET g == Gcd(n, d) IN [num |-> n \div g, den |-> d \div g]

RECURSIVE SumRatings(_)
SumRatings(feedback) ==
  IF feedback = <<>> THEN 0
  ELSE Head(feedback).rating + SumRatings(Tail(feedback))

\* new Initiative({... creator: req.user.id ...}): the schema defaults
NewInitiative(u) ==
  [creator |-> u, isPublic |-> TRUE, members |-> <<>>, likes |-> <<>>, feedback |-> <<>>,
   comments |-> <<>>, averageRating |-> Quot(0, 1), totalRatings |-> 0]

\* a hook that counts the saves instead of the entries
PreSaveInitiativeCounting(doc) ==
  IF Len(doc.feedback) > 0
  THEN [doc EXCEPT !.averageRating = Quot(SumRatings(doc.feedback), Len(doc.feedback)),
                   !.totalRatings = @ + 1]
  ELSE doc

\* initiativeSchema.pre('save')
PreSaveInitiative(doc) ==
  IF Len(doc.feedback) > 0
  THEN [doc EXCEPT !.averageRating = Quot(SumRatings(doc.feedback), Len(doc.feedback)),
                   !.totalRatings = Len(doc.feedback)]
  ELSE doc

\* { $set: body } under the schema's strict mode: paths that are not in the
\* schema are dropped, the others replace the stored value
ApplySet(doc, body) ==
  [f \in DOMAIN doc |-> IF f \in DOMAIN body THEN body[f] ELSE doc[f]]

\* document.save() of a loaded document: the modified paths are sent as a
\* delta; an array that was only pushed to is sent as $push, every other
\* modified path as $set
SaveDelta(stored, loaded, local, pushPath, pushVal) ==
  [f \in DOMAIN stored |->
     IF f = pushPath THEN Append(stored[f], pushVal)
     ELSE IF local[f] # loaded[f] THEN local[f]
     ELSE stored[f]]

FindById(coll, id) ==
  IF id \in 1..Len(coll) THEN coll[id] ELSE NoDoc

\* index of the first element equal to u, 0 when there is none
\* (findIndex(x => x.toString() === req.user.id), shifted by one)
RECURSIVE FindIndexFrom(_, _, _)
FindIndexFrom(arr, u, i) ==
  IF i > Len(arr) THEN 0
  ELSE IF arr[i] = u THEN i
  ELSE FindIndexFrom(arr, u, i + 1)

\* a search that finds nothing
FindIndexNever(arr, u) == 0

FindIndex(arr, u) == FindIndexFrom(arr, u, 1)

\* a splice without its count, arr.splice(i): the tail goes as well
SpliceTail(arr, i) == SubSeq(arr, 1, i - 1)

\* arr.splice(i, 1)
Splice(arr, i) ==
  [k \in 1..(Len(arr) - 1) |-> IF k < i THEN arr[k] ELSE arr[k + 1]]

----------------------------------------------------------------------------
(* Requests *)

Slots == {1, 2}

IdleReq ==
  [op |-> "idle", pc |-> "done", user |-> "none", id |-> 0,
   body |-> NoBody, doc |-> NoDoc, status |-> 0]

Start(op, pc, u, id, body, doc) ==
  [op |-> op, pc |-> pc, user |-> u, id |-> id,
   body |-> body, doc |-> doc, status |-> 0]

\* the response is sent: the route and the status stay visible, the request
\* and the handler's locals are dropped
Respond(r, status) ==
  [IdleReq EXCEPT !.op = r.op, !.status = status]

\* no request is in the middleware
IdleAuth ==
  [mw |-> "none", header |-> [present |-> FALSE], pc |-> "done", token |-> NoToken,
   user |-> "none", status |-> 0, responses |-> 0, nextCalls |-> 0,
   roleChecked |-> FALSE]

\* no listing has been requested
IdleListing ==
  [pc |-> "done", total |-> 0, page |-> 1, limit |-> 1,
   result |-> <<>>, totalPages |-> 0, totalOut |-> 0]

\* no score method has been called
NoScore == [method |-> "none", score |-> 0]

\* no request is in the users router
IdleUserReq == [path |-> <<>>, handler |-> "none", status |-> 0]

\* the slots other than s that hold a loaded copy of the initiative id: a
\* save that changes an array increments the version of the stored document
\* and leaves their copies with the older version
Readers(s, id) ==
  {t \in Slots \ {s} : /\ req[t].pc # "done"
                        /\ req[t].id = id
                        /\ req[t].op \in {"createInitiative", "like"}}

\* no like call has saved yet
NoLike == [user |-> "none", id |-> 0, before |-> <<>>, again |-> FALSE]

Init ==
  /\ initiatives = <<>>
  /\ createdInitiatives = [u \in Users |-> <<>>]
  /\ events = <<>>
  /\ eventBody = <<>>
  /\ lastLike = NoLike
  /\ behind = {}
  /\ donations = <<>>
  /\ statusPuts = {}
  /\ notifications = <<>>
  /\ scoreCall = NoScore
  /\ userReq = IdleUserReq
  /\ messages = <<>>
  /\ now = 1
  /\ authReq = IdleAuth
  /\ listing = IdleListing
  /\ req = [s \in Slots |-> IdleReq]

----------------------------------------------------------------------------
(* POST /initiatives *)

\* validation, then newInitiative.save()
InitiativeCreateSave(s, u, valid) ==
  /\ req[s].pc = "done"
  /\ Len(initiatives) < MaxInitiatives
  /\ IF ~valid
     THEN /\ req' = [req EXCEPT ![s] =
                       Respond(Start("createInitiative", "done", u, 0, NoBody, NoDoc), 400)]
          /\ UNCHANGED initiatives
     ELSE /\ initiatives' = Append(initiatives, PreSaveInitiative(NewInitiative(u)))
          /\ req' = [req EXCEPT ![s] =
                       Start("createInitiative", "push", u, Len(initiatives) + 1,
                             NoBody, PreSaveInitiative(NewInitiative(u)))]
  /\ UNCHANGED <<createdInitiatives, lastLike, behind, eventVars, otherVars>>

\* initiative.members.push(req.user.id); await initiative.save()
InitiativeCreatePush(s) ==
  /\ req[s].op = "createInitiative" /\ req[s].pc = "push"
  /\ LET r == req[s]
         local == PreSaveInitiative([r.doc EXCEPT !.members = Append(@, r.user)])
     IN IF initiatives[r.id] = NoDoc
        THEN /\ req' = [req EXCEPT ![s] = Respond(r, 500)]
             /\ UNCHANGED <<initiatives, behind>>
        ELSE /\ initiatives' = [initiatives EXCEPT ![r.id] =
                                  SaveDelta(@, r.doc, local, "members", r.user)]
             /\ behind' = (behind \ {s}) \cup Readers(s, r.id)
             /\ req' = [req EXCEPT ![s] = [r EXCEPT !.pc = "user", !.doc = local]]
  /\ UNCHANGED <<createdInitiatives, lastLike, eventVars, otherVars>>

\* User.findByIdAndUpdate(req.user.id, {$push: {createdInitiatives: id}})
InitiativeCreateUser(s) ==
  /\ req[s].op = "createInitiative" /\ req[s].pc = "user"
  /\ createdInitiatives' = [createdInitiatives EXCEPT ![req[s].user] = Append(@, req[s].id)]
  /\ req' = [req EXCEPT ![s] = Respond(req[s], 200)]
  /\ UNCHANGED <<initiatives, lastLike, behind, eventVars, otherVars>>

----------------------------------------------------------------------------
(* PUT /initiatives/:id and DELETE /initiatives/:id *)

\* the request bodies of the update requests: goals is not a path of the
\* schema, members and creator are
InitiativeBodies ==
  {[goals |-> "g"], [members |-> <<>>], [creator |-> "u2"]}

InitiativeIds == 1..MaxInitiatives

\* a check that lets moderators through as well
NotAuthorizedLax(owner, u) == owner # u /\ Role[u] \notin {"admin", "moderator"}

\* initiative.creator.toString() !== req.user.id && req.user.role !== 'admin'
NotAuthorized(owner, u) == owner # u /\ Role[u] # "admin"

\* Initiative.findById(req.params.id) and the 404 answer
InitiativeUpdateFind(s, u, id, body) ==
  /\ req[s].pc = "done"
  /\ LET doc == FindById(initiatives, id)
     IN req' = [req EXCEPT ![s] =
                  IF doc = NoDoc
                  THEN Respond(Start("updateInitiative", "done", u, id, body, NoDoc), 404)
                  ELSE Start("updateInitiative", "check", u, id, body, doc)]
  /\ UNCHANGED <<initiatives, createdInitiatives, lastLike, behind, eventVars, otherVars>>

\* the ownership check, then Initiative.findByIdAndUpdate(id, {$set: req.body})
InitiativeUpdateSet(s) ==
  /\ req[s].op = "updateInitiative" /\ req[s].pc = "check"
  /\ LET r == req[s]
     IN IF NotAuthorized(r.doc.creator, r.user)
        THEN /\ req' = [req EXCEPT ![s] = Respond(r, 401)]
             /\ UNCHANGED initiatives
        ELSE /\ initiatives' = [initiatives EXCEPT ![r.id] =
                                  IF @ = NoDoc THEN @ ELSE ApplySet(@, r.body)]
             /\ req' = [req EXCEPT ![s] = Respond(r, 200)]
  /\ UNCHANGED <<createdInitiatives, lastLike, behind, eventVars, otherVars>>

InitiativeDeleteFind(s, u, id) ==
  /\ req[s].pc = "done"
  /\ LET doc == FindById(initiatives, id)
     IN req' = [req EXCEPT ![s] =
                  IF doc = NoDoc
                  THEN Respond(Start("deleteInitiative", "done", u, id, NoBody, NoDoc), 404)
                  ELSE Start("deleteInitiative", "check", u, id, NoBody, doc)]
  /\ UNCHANGED <<initiatives, createdInitiatives, lastLike, behind, eventVars, otherVars>>

\* the ownership check, then initiative.remove()
InitiativeDeleteRemove(s) ==
  /\ req[s].op = "deleteInitiative" /\ req[s].pc = "check"
  /\ LET r == req[s]
     IN IF NotAuthorized(r.doc.creator, r.user)
        THEN /\ req' = [req EXCEPT ![s] = Respond(r, 401)]
             /\ UNCHANGED initiatives
        ELSE /\ initiatives' = [initiatives EXCEPT ![r.id] = NoDoc]
             /\ req' = [req EXCEPT ![s] = Respond(r, 200)]
  /\ UNCHANGED <<createdInitiatives, lastLike, behind, eventVars, otherVars>>

----------------------------------------------------------------------------
(* POST /initiatives/:id/join *)

\* member.user of an element of members: the schema stores user
\* identifiers in members, and an identifier has no property user
MemberUser(member) == "undefined"

\* members.find(member => member.user.toString() === req.user.id) throws a
\* TypeError at the first element, for toString is read from undefined
FindMemberThrows(members) ==
  \E i \in 1..Len(members) : MemberUser(members[i]) = "undefined"

\* the cast of a pushed object to the element type of members, an
\* identifier: the _id of the object is taken when it has one, otherwise
\* its string form, which is no identifier, and the cast throws
CastObjectThrows(obj) == "_id" \notin DOMAIN obj

InitiativeJoinFind(s, u, id) ==
  /\ req[s].pc = "done"
  /\ LET doc == FindById(initiatives, id)
     IN req' = [req EXCEPT ![s] =
                  IF doc = NoDoc
                  THEN Respond(Start("join", "done", u, id, NoBody, NoDoc), 404)
                  ELSE Start("join", "check", u, id, NoBody, doc)]
  /\ UNCHANGED <<initiatives, createdInitiatives, lastLike, behind, eventVars, otherVars>>

\* the membership test, members.push({user, role}), initiative.save(); every
\* exception is answered with 500
InitiativeJoinPush(s) ==
  /\ req[s].op = "join" /\ req[s].pc = "check"
  /\ LET r == req[s]
         pushed == [user |-> r.user, role |-> "member"]
     IN IF FindMemberThrows(r.doc.members)
        THEN /\ req' = [req EXCEPT ![s] = Respond(r, 500)]
             /\ UNCHANGED initiatives
        ELSE IF CastObjectThrows(pushed)
        THEN /\ req' = [req EXCEPT ![s] = Respond(r, 500)]
             /\ UNCHANGED initiatives
        ELSE IF initiatives[r.id] = NoDoc
        THEN /\ req' = [req EXCEPT ![s] = Respond(r, 500)]
             /\ UNCHANGED initiatives
        ELSE /\ initiatives' = [initiatives EXCEPT ![r.id] =
                  SaveDelta(@, r.doc,
                            PreSaveInitiative([r.doc EXCEPT !.members = Append(@, pushed)]),
                            "members", pushed)]
             /\ req' = [req EXCEPT ![s] = Respond(r, 200)]
  /\ UNCHANGED <<createdInitiatives, lastLike, behind, eventVars, otherVars>>

----------------------------------------------------------------------------
(* POST /initiatives/:id/like *)

InitiativeLikeFind(s, u, id) ==
  /\ req[s].pc = "done"
  /\ LET doc == FindById(initiatives, id)
     IN req' = [req EXCEPT ![s] =
                  IF doc = NoDoc
                  THEN Respond(Start("like", "done", u, id, NoBody, NoDoc), 404)
                  ELSE Start("like", "toggle", u, id, NoBody, doc)]
  /\ behind' = behind \ {s}
  /\ UNCHANGED <<initiatives, createdInitiatives, lastLike, eventVars, otherVars>>

\* a toggle that never removes
ToggleLikeAppend(likes, u) == Append(likes, u)

\* the likes array after the toggle of the handler
ToggleLike(likes, u) ==
  IF FindIndex(likes, u) > 0 THEN Splice(likes, FindIndex(likes, u))
  ELSE Append(likes, u)

\* findIndex, splice or push, initiative.save(): the push is sent as $push
\* whatever the stored version is; the spliced array is sent as $set under
\* the condition that the stored version is the loaded one, and the save
\* throws a VersionError otherwise
InitiativeLikeSave(s) ==
  /\ req[s].op = "like" /\ req[s].pc = "toggle"
  /\ LET r == req[s]
         liked == FindIndex(r.doc.likes, r.user) > 0
         local == PreSaveInitiative([r.doc EXCEPT !.likes = ToggleLike(@, r.user)])
     IN IF initiatives[r.id] = NoDoc \/ (liked /\ s \in behind)
        THEN /\ req' = [req EXCEPT ![s] = Respond(r, 500)]
             /\ UNCHANGED <<initiatives, lastLike, behind>>
        ELSE /\ initiatives' = [initiatives EXCEPT ![r.id] =
                  SaveDelta(@, r.doc, local,
                            IF liked THEN "none" ELSE "likes", r.user)]
             /\ behind' = (behind \ {s}) \cup Readers(s, r.id)
             /\ lastLike' = [user |-> r.user, id |-> r.id,
                             before |-> initiatives[r.id].likes,
                             again |-> lastLike.user = r.user /\ lastLike.id = r.id]
             /\ req' = [req EXCEPT ![s] = Respond(r, 200)]
  /\ UNCHANGED <<createdInitiatives, eventVars, otherVars>>

----------------------------------------------------------------------------
(* GET /initiatives/:id, POST /initiatives/:id/comment, malformed :id *)

\* an :id that is no ObjectId: findById throws a CastError of kind ObjectId
MalformedParam == -1

\* the routes of the initiatives router that take an :id
InitiativeRoutes ==
  {"getInitiative", "updateInitiative", "deleteInitiative", "join", "like", "comment"}

\* the routes whose catch block answers 404 when error.kind === 'ObjectId'
KindChecked == {"getInitiative", "updateInitiative", "deleteInitiative"}

\* the answer of the catch block of a route to a CastError
CatchCastError(route) == IF route \in KindChecked THEN 404 ELSE 500

\* a request with a malformed :id on a route: the validation of the comment
\* route passes, findById throws, the catch block answers
InitiativeCastError(s, u, route) ==
  /\ req[s].pc = "done"
  /\ req' = [req EXCEPT ![s] =
               [Respond(Start(route, "done", u, MalformedParam, NoBody, NoDoc),
                        CatchCastError(route))
                  EXCEPT !.id = MalformedParam]]
  /\ UNCHANGED <<initiativeVars, eventVars, otherVars>>

\* GET /initiatives/:id: findById, 404 or the initiative
InitiativeGet(s, id) ==
  /\ req[s].pc = "done"
  /\ req' = [req EXCEPT ![s] =
               Respond(Start("getInitiative", "done", "none", id, NoBody, NoDoc),
                       IF FindById(initiatives, id) = NoDoc THEN 404 ELSE 200)]
  /\ UNCHANGED <<initiativeVars, eventVars, otherVars>>

\* the texts of the comment requests
CommentTexts == {"", "hi"}

\* the element { user, text } cast to the element type of comments: user,
\* content, createdAt, likes; text is no path of it and is dropped
CommentOf(u, text) == [user |-> u, likes |-> <<>>]

\* the validation of save(): content is required
ValidComment(comment) == "content" \in DOMAIN comment

\* the validation of the body, findById and the 404 answer
InitiativeCommentFind(s, u, id, text) ==
  /\ req[s].pc = "done"
  /\ LET doc == FindById(initiatives, id)
         body == [text |-> text]
     IN req' = [req EXCEPT ![s] =
                  IF text = ""
                  THEN Respond(Start("comment", "done", u, id, body, NoDoc), 400)
                  ELSE IF doc = NoDoc
                  THEN Respond(Start("comment", "done", u, id, body, NoDoc), 404)
                  ELSE Start("comment", "save", u, id, body, doc)]
  /\ UNCHANGED <<initiativeVars, eventVars, otherVars>>

\* comments.unshift(newComment), initiative.save(); a validation error, a
\* version error and a removed document are answered with 500
InitiativeCommentSave(s) ==
  /\ req[s].op = "comment" /\ req[s].pc = "save"
  /\ LET r == req[s]
         comment == CommentOf(r.user, r.body.text)
         local == PreSaveInitiative([r.doc EXCEPT !.comments = <<comment>> \o @])
     IN IF ~ValidComment(comment) \/ initiatives[r.id] = NoDoc \/ s \in behind
        THEN /\ req' = [req EXCEPT ![s] = Respond(r, 500)]
             /\ UNCHANGED <<initiatives, behind>>
        ELSE /\ initiatives' = [initiatives EXCEPT ![r.id] =
                                  SaveDelta(@, r.doc, local, "none", 0)]
             /\ behind' = (behind \ {s}) \cup Readers(s, r.id)
             /\ req' = [req EXCEPT ![s] = Respond(r, 200)]
  /\ UNCHANGED <<createdInitiatives, lastLike, eventVars, otherVars>>

----------------------------------------------------------------------------
(* Events *)

MaxCapacity == 2

\* the schema defaults of an event; maxAttendees is no path of the schema
EventDefaults(u) ==
  [organizer |-> u, isPublic |-> TRUE, attendees |-> <<>>, likes |-> <<>>, feedback |-> <<>>,
   averageRating |-> Quot(0, 1), totalRatings |-> 0, capacity |-> 0,
   eventMetrics |-> [totalAttendees |-> 0, engagementRate |-> Quot(0, 1)]]

\* new Event({... organizer: req.user.id, maxAttendees ...}): strict mode
\* keeps the paths of the schema only
NewEvent(u, body) == ApplySet(EventDefaults(u), [maxAttendees |-> body.maxAttendees])

\* a hook that divides the attendees by the likes
PreSaveEventInverse(doc) ==
  LET rated == IF Len(doc.feedback) > 0
               THEN [doc EXCEPT !.averageRating =
                                   Quot(SumRatings(doc.feedback), Len(doc.feedback)),
                                !.totalRatings = Len(doc.feedback)]
               ELSE doc
  IN IF Len(rated.attendees) > 0 /\ Len(rated.likes) > 0
     THEN [rated EXCEPT !.eventMetrics.engagementRate =
                           Quot(Len(rated.attendees) * 100, Len(rated.likes))]
     ELSE rated

\* eventSchema.pre('save')
PreSaveEvent(doc) ==
  LET rated == IF Len(doc.feedback) > 0
               THEN [doc EXCEPT !.averageRating =
                                   Quot(SumRatings(doc.feedback), Len(doc.feedback)),
                                !.totalRatings = Len(doc.feedback)]
               ELSE doc
  IN IF Len(rated.attendees) > 0
     THEN [rated EXCEPT !.eventMetrics.engagementRate =
                           Quot(Len(rated.likes) * 100, Len(rated.attendees))]
     ELSE rated

EventCreateBodies == {[maxAttendees |-> n] : n \in 1..MaxCapacity}

\* the create bodies of the specification of the ownership checks
OwnerCreateBodies == {[maxAttendees |-> 1]}

EventBodies ==
  {[maxAttendees |-> 1], [attendees |-> <<>>], [organizer |-> "u2"]}

\* the update bodies of the specification of the engagement rate
EngagementBodies == {[likes |-> <<"u2">>], [attendees |-> <<>>]}

EventIds == 1..MaxEvents

\* validation, then newEvent.save()
EventCreateSave(s, u, body, valid) ==
  /\ req[s].pc = "done"
  /\ Len(events) < MaxEvents
  /\ IF ~valid
     THEN /\ req' = [req EXCEPT ![s] =
                       Respond(Start("createEvent", "done", u, 0, body, NoDoc), 400)]
          /\ UNCHANGED eventVars
     ELSE /\ events' = Append(events, PreSaveEvent(NewEvent(u, body)))
          /\ eventBody' = Append(eventBody, body)
          /\ req' = [req EXCEPT ![s] =
                       Start("createEvent", "push", u, Len(events) + 1,
                             body, PreSaveEvent(NewEvent(u, body)))]
  /\ UNCHANGED <<initiatives, createdInitiatives, lastLike, behind, otherVars>>

\* event.attendees.push(req.user.id); await event.save()
EventCreatePush(s) ==
  /\ req[s].op = "createEvent" /\ req[s].pc = "push"
  /\ LET r == req[s]
         local == PreSaveEvent([r.doc EXCEPT !.attendees = Append(@, r.user)])
     IN IF events[r.id] = NoDoc
        THEN /\ req' = [req EXCEPT ![s] = Respond(r, 500)]
             /\ UNCHANGED events
        ELSE /\ events' = [events EXCEPT ![r.id] =
                             SaveDelta(@, r.doc, local, "attendees", r.user)]
             /\ req' = [req EXCEPT ![s] = Respond(r, 200)]
  /\ UNCHANGED <<initiatives, createdInitiatives, lastLike, behind, eventBody, otherVars>>

EventUpdateFind(s, u, id, body) ==
  /\ req[s].pc = "done"
  /\ LET doc == FindById(events, id)
     IN req' = [req EXCEPT ![s] =
                  IF doc = NoDoc
                  THEN Respond(Start("updateEvent", "done", u, id, body, NoDoc), 404)
                  ELSE Start("updateEvent", "check", u, id, body, doc)]
  /\ UNCHANGED <<initiatives, createdInitiatives, lastLike, behind, eventVars, otherVars>>

\* the ownership check, then Event.findByIdAndUpdate(id, {$set: req.body})
EventUpdateSet(s) ==
  /\ req[s].op = "updateEvent" /\ req[s].pc = "check"
  /\ LET r == req[s]
     IN IF NotAuthorized(r.doc.organizer, r.user)
        THEN /\ req' = [req EXCEPT ![s] = Respond(r, 401)]
             /\ UNCHANGED events
        ELSE /\ events' = [events EXCEPT ![r.id] =
                             IF @ = NoDoc THEN @ ELSE ApplySet(@, r.body)]
             /\ req' = [req EXCEPT ![s] = Respond(r, 200)]
  /\ UNCHANGED <<initiatives, createdInitiatives, lastLike, behind, eventBody, otherVars>>

EventDeleteFind(s, u, id) ==
  /\ req[s].pc = "done"
  /\ LET doc == FindById(events, id)
     IN req' = [req EXCEPT ![s] =
                  IF doc = NoDoc
                  THEN Respond(Start("deleteEvent", "done", u, id, NoBody, NoDoc), 404)
                  ELSE Start("deleteEvent", "check", u, id, NoBody, doc)]
  /\ UNCHANGED <<initiatives, createdInitiatives, lastLike, behind, eventVars, otherVars>>

\* the ownership check, then event.remove()
EventDeleteRemove(s) ==
  /\ req[s].op = "deleteEvent" /\ req[s].pc = "check"
  /\ LET r == req[s]
     IN IF NotAuthorized(r.doc.organizer, r.user)
        THEN /\ req' = [req EXCEPT ![s] = Respond(r, 401)]
             /\ UNCHANGED events
        ELSE /\ events' = [events EXCEPT ![r.id] = NoDoc]
             /\ req' = [req EXCEPT ![s] = Respond(r, 200)]
  /\ UNCHANGED <<initiatives, createdInitiatives, lastLike, behind, eventBody, otherVars>>

----------------------------------------------------------------------------
(* POST /events/:id/attend *)

\* event.maxAttendees && event.attendees.length >= event.maxAttendees:
\* a path the document does not have reads as undefined
IsFull(doc) ==
  /\ "maxAttendees" \in DOMAIN doc
  /\ doc.maxAttendees # 0
  /\ Len(doc.attendees) >= doc.maxAttendees

EventAttendFind(s, u, id) ==
  /\ req[s].pc = "done"
  /\ LET doc == FindById(events, id)
     IN req' = [req EXCEPT ![s] =
                  IF doc = NoDoc
                  THEN Respond(Start("attend", "done", u, id, NoBody, NoDoc), 404)
                  ELSE Start("attend", "check", u, id, NoBody, doc)]
  /\ UNCHANGED <<initiatives, createdInitiatives, lastLike, behind, eventVars, otherVars>>

\* the duplicate test, the capacity test, attendees.push, event.save()
EventAttendSave(s) ==
  /\ req[s].op = "attend" /\ req[s].pc = "check"
  /\ LET r == req[s]
         local == PreSaveEvent([r.doc EXCEPT !.attendees = Append(@, r.user)])
     IN IF FindIndex(r.doc.attendees, r.user) > 0
        THEN /\ req' = [req EXCEPT ![s] = Respond(r, 400)]
             /\ UNCHANGED events
        ELSE IF IsFull(r.doc)
        THEN /\ req' = [req EXCEPT ![s] = Respond(r, 400)]
             /\ UNCHANGED events
        ELSE IF events[r.id] = NoDoc
        THEN /\ req' = [req EXCEPT ![s] = Respond(r, 500)]
             /\ UNCHANGED events
        ELSE /\ events' = [events EXCEPT ![r.id] =
                             SaveDelta(@, r.doc, local, "attendees", r.user)]
             /\ req' = [req EXCEPT ![s] = Respond(r, 200)]
  /\ UNCHANGED <<initiatives, createdInitiatives, lastLike, behind, eventBody, otherVars>>

----------------------------------------------------------------------------
(* DELETE /events/:id/attend *)

EventUnattendFind(s, u, id) ==
  /\ req[s].pc = "done"
  /\ LET doc == FindById(events, id)
     IN req' = [req EXCEPT ![s] =
                  IF doc = NoDoc
                  THEN Respond(Start("unattend", "done", u, id, NoBody, NoDoc), 404)
                  ELSE Start("unattend", "check", u, id, NoBody, doc)]
  /\ UNCHANGED <<initiatives, createdInitiatives, lastLike, behind, eventVars, otherVars>>

\* findIndex, the 400 answer, attendees.splice(attendeeIndex, 1), event.save()
EventUnattendSave(s) ==
  /\ req[s].op = "unattend" /\ req[s].pc = "check"
  /\ LET r == req[s]
         i == FindIndex(r.doc.attendees, r.user)
         local == PreSaveEvent([r.doc EXCEPT !.attendees = Splice(@, i)])
     IN IF i = 0
        THEN /\ req' = [req EXCEPT ![s] = Respond(r, 400)]
             /\ UNCHANGED events
        ELSE IF events[r.id] = NoDoc
        THEN /\ req' = [req EXCEPT ![s] = Respond(r, 500)]
             /\ UNCHANGED events
        ELSE /\ events' = [events EXCEPT ![r.id] = SaveDelta(@, r.doc, local, "none", 0)]
             /\ req' = [req EXCEPT ![s] = Respond(r, 200)]
  /\ UNCHANGED <<initiatives, createdInitiatives, lastLike, behind, eventBody, otherVars>>

----------------------------------------------------------------------------
(* Messages *)

MaxMessages == 1
MaxTime == 2

\* a well-formed identifier that no user has
GhostId == "u0"

MessageIds == 1..MaxMessages

\* new Message({sender: req.user.id, recipient, ...}): the schema defaults
NewMessage(u, recipient) ==
  [sender |-> u, recipient |-> recipient, isRead |-> FALSE, readAt |-> NoDate]

\* time passes between two requests
Tick ==
  /\ now < MaxTime
  /\ now' = now + 1
  /\ UNCHANGED <<initiativeVars, eventVars, restVars, req, messages, authReq, listing>>

\* the texts a body can carry as recipient: the 24 hexadecimal digits of an
\* identifier, in lower case as toString writes them or in upper case;
\* isMongoId accepts both
RecipientTexts == [id : Users \cup {GhostId}, upper : BOOLEAN]

\* the cast of a text to an ObjectId: the case of the digits is lost
CastObjectId(text) == text.id

\* req.user.id: the identifier of the caller as toString writes it
IdText(u) == [id |-> u, upper |-> FALSE]

\* POST /messages: User.findById(recipient), the 404 and the 400 answers
MessageSendFind(s, u, recipient) ==
  /\ req[s].pc = "done"
  /\ Len(messages) < MaxMessages
  /\ req' = [req EXCEPT ![s] =
               IF CastObjectId(recipient) \notin Users
               THEN Respond(Start("send", "done", u, 0, NoBody, NoDoc), 404)
               ELSE IF recipient = IdText(u)
               THEN Respond(Start("send", "done", u, 0, NoBody, NoDoc), 400)
               ELSE Start("send", "save", u, 0, NoBody,
                          NewMessage(u, CastObjectId(recipient)))]
  /\ UNCHANGED <<initiativeVars, eventVars, restVars, messageVars, authReq, listing>>

\* message.save()
MessageSendSave(s) ==
  /\ req[s].op = "send" /\ req[s].pc = "save"
  /\ messages' = Append(messages, req[s].doc)
  /\ req' = [req EXCEPT ![s] = Respond(req[s], 200)]
  /\ UNCHANGED <<initiativeVars, eventVars, restVars, now, authReq, listing>>

\* GET /messages/:id: Message.findById and the 404 answer
MessageGetFind(s, u, id) ==
  /\ req[s].pc = "done"
  /\ LET doc == FindById(messages, id)
     IN req' = [req EXCEPT ![s] =
                  IF doc = NoDoc
                  THEN Respond(Start("getMessage", "done", u, id, NoBody, NoDoc), 404)
                  ELSE Start("getMessage", "check", u, id, NoBody, doc)]
  /\ UNCHANGED <<initiativeVars, eventVars, restVars, messageVars, authReq, listing>>

\* a handler that marks the message read for either party
MessageGetReadAnyParty(s) ==
  /\ req[s].op = "getMessage" /\ req[s].pc = "check"
  /\ LET r == req[s]
         local == [r.doc EXCEPT !.isRead = TRUE, !.readAt = now]
     IN IF r.doc.sender # r.user /\ r.doc.recipient # r.user
        THEN /\ req' = [req EXCEPT ![s] = Respond(r, 403)]
             /\ UNCHANGED messages
        ELSE IF ~r.doc.isRead
        THEN /\ messages' = [messages EXCEPT ![r.id] =
                               SaveDelta(@, r.doc, local, "none", 0)]
             /\ req' = [req EXCEPT ![s] = Respond(r, 200)]
        ELSE /\ req' = [req EXCEPT ![s] = Respond(r, 200)]
             /\ UNCHANGED messages
  /\ UNCHANGED <<initiativeVars, eventVars, restVars, now, authReq, listing>>

\* the party check, then the mark as read when the recipient is viewing
MessageGetRead(s) ==
  /\ req[s].op = "getMessage" /\ req[s].pc = "check"
  /\ LET r == req[s]
         local == [r.doc EXCEPT !.isRead = TRUE, !.readAt = now]
     IN IF r.doc.sender # r.user /\ r.doc.recipient # r.user
        THEN /\ req' = [req EXCEPT ![s] = Respond(r, 403)]
             /\ UNCHANGED messages
        ELSE IF r.doc.recipient = r.user /\ ~r.doc.isRead
        THEN IF messages[r.id] = NoDoc
             THEN /\ req' = [req EXCEPT ![s] = Respond(r, 500)]
                  /\ UNCHANGED messages
             ELSE /\ messages' = [messages EXCEPT ![r.id] =
                                    SaveDelta(@, r.doc, local, "none", 0)]
                  /\ req' = [req EXCEPT ![s] = Respond(r, 200)]
        ELSE /\ req' = [req EXCEPT ![s] = Respond(r, 200)]
             /\ UNCHANGED messages
  /\ UNCHANGED <<initiativeVars, eventVars, restVars, now, authReq, listing>>

\* PUT /messages/:id/read: Message.findById and the 404 answer
MessageReadFind(s, u, id) ==
  /\ req[s].pc = "done"
  /\ LET doc == FindById(messages, id)
     IN req' = [req EXCEPT ![s] =
                  IF doc = NoDoc
                  THEN Respond(Start("markRead", "done", u, id, NoBody, NoDoc), 404)
                  ELSE Start("markRead", "check", u, id, NoBody, doc)]
  /\ UNCHANGED <<initiativeVars, eventVars, restVars, messageVars, authReq, listing>>

\* a handler that flips isRead and leaves readAt alone
MessageReadSaveToggle(s) ==
  /\ req[s].op = "markRead" /\ req[s].pc = "check"
  /\ LET r == req[s]
         local == [r.doc EXCEPT !.isRead = ~@]
     IN IF r.doc.recipient # r.user
        THEN /\ req' = [req EXCEPT ![s] = Respond(r, 403)]
             /\ UNCHANGED messages
        ELSE IF messages[r.id] = NoDoc
        THEN /\ req' = [req EXCEPT ![s] = Respond(r, 500)]
             /\ UNCHANGED messages
        ELSE /\ messages' = [messages EXCEPT ![r.id] =
                               SaveDelta(@, r.doc, local, "none", 0)]
             /\ req' = [req EXCEPT ![s] = Respond(r, 200)]
  /\ UNCHANGED <<initiativeVars, eventVars, restVars, now, authReq, listing>>

\* the recipient check, then isRead = true, readAt = new Date(), save()
MessageReadSave(s) ==
  /\ req[s].op = "markRead" /\ req[s].pc = "check"
  /\ LET r == req[s]
         local == [r.doc EXCEPT !.isRead = TRUE, !.readAt = now]
     IN IF r.doc.recipient # r.user
        THEN /\ req' = [req EXCEPT ![s] = Respond(r, 403)]
             /\ UNCHANGED messages
        ELSE IF messages[r.id] = NoDoc
        THEN /\ req' = [req EXCEPT ![s] = Respond(r, 500)]
             /\ UNCHANGED messages
        ELSE /\ messages' = [messages EXCEPT ![r.id] =
                               SaveDelta(@, r.doc, local, "none", 0)]
             /\ req' = [req EXCEPT ![s] = Respond(r, 200)]
  /\ UNCHANGED <<initiativeVars, eventVars, restVars, now, authReq, listing>>

\* DELETE /messages/:id: Message.findById and the 404 answer
MessageDeleteFind(s, u, id) ==
  /\ req[s].pc = "done"
  /\ LET doc == FindById(messages, id)
     IN req' = [req EXCEPT ![s] =
                  IF doc = NoDoc
                  THEN Respond(Start("deleteMessage", "done", u, id, NoBody, NoDoc), 404)
                  ELSE Start("deleteMessage", "check", u, id, NoBody, doc)]
  /\ UNCHANGED <<initiativeVars, eventVars, restVars, messageVars, authReq, listing>>

\* a handler that removes the message for any authenticated user
MessageDeleteRemoveAnyUser(s) ==
  /\ req[s].op = "deleteMessage" /\ req[s].pc = "check"
  /\ messages' = [messages EXCEPT ![req[s].id] = NoDoc]
  /\ req' = [req EXCEPT ![s] = Respond(req[s], 200)]
  /\ UNCHANGED <<initiativeVars, eventVars, restVars, now, authReq, listing>>

\* the party check, then message.remove()
MessageDeleteRemove(s) ==
  /\ req[s].op = "deleteMessage" /\ req[s].pc = "check"
  /\ LET r == req[s]
     IN IF r.doc.sender # r.user /\ r.doc.recipient # r.user
        THEN /\ req' = [req EXCEPT ![s] = Respond(r, 403)]
             /\ UNCHANGED messages
        ELSE /\ messages' = [messages EXCEPT ![r.id] = NoDoc]
             /\ req' = [req EXCEPT ![s] = Respond(r, 200)]
  /\ UNCHANGED <<initiativeVars, eventVars, restVars, now, authReq, listing>>

----------------------------------------------------------------------------
(* The auth middleware *)

\* an identifier that is no ObjectId: findById throws a CastError
MalformedId == "xyz"

\* the JSON web tokens a client may send
Tokens ==
  [kind : {"jwt"}, sig : {"good", "bad"}, expired : BOOLEAN,
   userId : Users \cup {GhostId, MalformedId}]

\* the empty string
EmptyToken == [kind |-> "empty"]

\* the Authorization headers: none, or a token with or without the prefix
\* 'Bearer '
Headers ==
  {[present |-> FALSE]}
    \cup [present : {TRUE}, bearer : BOOLEAN, token : Tokens \cup {EmptyToken}]

\* req.header('Authorization')?.replace('Bearer ', ''): the prefix is
\* removed when the header has it
TokenOf(header) ==
  IF header.present THEN header.token ELSE NoToken

\* !token
Falsy(token) == token.kind \in {"undefined", "empty"}

\* a verification that ignores the expiry
VerifyThrowsBadSignatureOnly(token) == token.sig = "bad"

\* jwt.verify(token, secret) throws on a bad signature and on an expired token
VerifyThrows(token) == token.sig = "bad" \/ token.expired

\* a role test that accepts moderators in both wrappers
RoleDeniedLax(mw, role) ==
  mw # "auth" /\ role # "admin" /\ role # "moderator"

\* the role test of the wrapper mw
RoleDenied(mw, role) ==
  CASE mw = "adminAuth" -> role # "admin"
    [] mw = "moderatorAuth" -> role # "admin" /\ role # "moderator"
    [] OTHER -> FALSE

Middlewares == {"auth", "adminAuth", "moderatorAuth"}

\* a request reaches the middleware mw
AuthStart(mw, header) ==
  /\ authReq.pc = "done"
  /\ authReq' = [IdleAuth EXCEPT !.mw = mw, !.header = header, !.pc = "token"]
  /\ UNCHANGED <<initiativeVars, eventVars, restVars, req, messageVars, listing>>

\* the token is read from the header; 401 when there is none
AuthToken ==
  /\ authReq.pc = "token"
  /\ LET token == TokenOf(authReq.header)
     IN authReq' =
          IF Falsy(token)
          THEN [authReq EXCEPT !.pc = "done", !.status = 401, !.responses = @ + 1]
          ELSE [authReq EXCEPT !.pc = "verify", !.token = token]
  /\ UNCHANGED <<initiativeVars, eventVars, restVars, req, messageVars, listing>>

\* jwt.verify; its exception is caught and answered with 401
AuthVerify ==
  /\ authReq.pc = "verify"
  /\ authReq' =
       IF VerifyThrows(authReq.token)
       THEN [authReq EXCEPT !.pc = "done", !.status = 401, !.responses = @ + 1]
       ELSE [authReq EXCEPT !.pc = "user"]
  /\ UNCHANGED <<initiativeVars, eventVars, restVars, req, messageVars, listing>>

\* User.findById(decoded.userId) is back: 401 when it found no user and when
\* it threw (an identifier that is no ObjectId), else req.user = user and
\* next() (the callback of the wrapper, for adminAuth and moderatorAuth)
AuthUser ==
  /\ authReq.pc = "user"
  /\ LET id == authReq.token.userId
     IN authReq' =
          IF id \notin Users
          THEN [authReq EXCEPT !.pc = "done", !.status = 401, !.responses = @ + 1]
          ELSE IF authReq.mw = "auth"
          THEN [authReq EXCEPT !.pc = "done", !.user = id, !.nextCalls = @ + 1]
          ELSE IF RoleDenied(authReq.mw, Role[id])
          THEN [authReq EXCEPT !.pc = "done", !.user = id, !.roleChecked = TRUE,
                               !.status = 403, !.responses = @ + 1]
          ELSE [authReq EXCEPT !.pc = "done", !.user = id, !.roleChecked = TRUE,
                               !.nextCalls = @ + 1]
  /\ UNCHANGED <<initiativeVars, eventVars, restVars, req, messageVars, listing>>

----------------------------------------------------------------------------
(* Listings: GET /initiatives, GET /events, GET /messages *)

MaxRecords == 25
MaxPage == 3
MaxLimit == 10

Min(a, b) == IF a < b THEN a ELSE b

\* the records matching the query in the sort order of the listing: record
\* i is the i-th created, and the latest created comes first
Sorted(total) == [k \in 1..total |-> total + 1 - k]

\* .skip(n)
Skip(records, n) == SubSeq(records, n + 1, Len(records))

\* .limit(n): no limit when n is 0
Limit(records, n) ==
  IF n = 0 THEN records ELSE SubSeq(records, 1, Min(n, Len(records)))

\* a skip that takes the page for 0-based
SkipCountZeroBased(page, limit) == page * limit

\* (page - 1) * limit
SkipCount(page, limit) == (page - 1) * limit

\* Math.ceil(total / limit)
TotalPages(total, limit) == (total + limit - 1) \div limit

\* find(query).sort(...).limit(limit * 1).skip((page - 1) * limit)
ListFind(total, page, limit) ==
  /\ listing.pc = "done"
  /\ listing' = [pc |-> "count", total |-> total, page |-> page, limit |-> limit,
                 result |-> Limit(Skip(Sorted(total), SkipCount(page, limit)), limit),
                 totalPages |-> 0, totalOut |-> 0]
  /\ UNCHANGED <<initiativeVars, eventVars, restVars, req, messageVars, authReq>>

\* countDocuments(query) and the response
ListCount ==
  /\ listing.pc = "count"
  /\ listing' = [listing EXCEPT !.pc = "done",
                                !.totalPages = TotalPages(listing.total, listing.limit),
                                !.totalOut = listing.total]
  /\ UNCHANGED <<initiativeVars, eventVars, restVars, req, messageVars, authReq>>

\* const { page = 1, limit = 20 } = req.query
DefaultLimit == 20

\* the elements of a set of identifiers, the largest first
RECURSIVE Descending(_)
Descending(ids) ==
  IF ids = {} THEN <<>>
  ELSE LET m == CHOOSE x \in ids : \A y \in ids : y <= x
       IN <<m>> \o Descending(ids \ {m})

\* Message.find(query).sort({createdAt: -1}): the identifiers of the stored
\* messages that have the values of the query, the latest created first
MessageFind(query) ==
  Descending({i \in 1..Len(messages) :
                /\ messages[i] # NoDoc
                /\ \A f \in DOMAIN query : messages[i][f] = query[f]})

\* the response of a listing: the page of messages, the total, and the
\* caller it was computed for
Listed(op, u, found, page, limit) ==
  [Respond(Start(op, "done", u, 0, NoBody, NoDoc), 200) EXCEPT
     !.user = u,
     !.body = [messages |-> Limit(Skip(found, SkipCount(page, limit)), limit),
               total |-> Len(found)]]

\* GET /messages: the inbox of the caller
MessageInbox(s, u, unreadOnly, page, limit) ==
  /\ req[s].pc = "done"
  /\ LET query == IF unreadOnly THEN [recipient |-> u, isRead |-> FALSE]
                                ELSE [recipient |-> u]
     IN req' = [req EXCEPT ![s] = Listed("inbox", u, MessageFind(query), page, limit)]
  /\ UNCHANGED <<initiativeVars, eventVars, restVars, messageVars, authReq, listing>>

\* GET /messages/sent: the messages the caller sent
MessageSent(s, u, page, limit) ==
  /\ req[s].pc = "done"
  /\ req' = [req EXCEPT ![s] =
               Listed("sent", u, MessageFind([sender |-> u]), page, limit)]
  /\ UNCHANGED <<initiativeVars, eventVars, restVars, messageVars, authReq, listing>>

----------------------------------------------------------------------------
(* addFeedback of Initiative and Event *)

MinRating == 1
MaxRating == 5

\* the users who give feedback, and the ratings they give (6 is out of range)
FeedbackUsers == {"u1", "u2"}

FeedbackRatings == {2, 5, 6}

\* the users who create the documents that receive feedback
FeedbackCreators == {"u1"}

\* this.feedback.filter(f => f.user.toString() !== userId.toString())
WithoutUser(feedback, u) ==
  LET Other(f) == f.user # u IN SelectSeq(feedback, Other)

\* the validation of save(): rating has min 1 and max 5
ValidRating(rating) == rating >= MinRating /\ rating <= MaxRating

\* the feedback list after the filter and the push of addFeedback
AddedFeedback(feedback, u, rating) ==
  Append(WithoutUser(feedback, u), [user |-> u, rating |-> rating])

\* initiative.addFeedback(userId, rating, comment) on the stored initiative id
InitiativeAddFeedback(id, u, rating) ==
  /\ req[1].pc = "done"
  /\ FindById(initiatives, id) # NoDoc
  /\ LET loaded == initiatives[id]
         local == PreSaveInitiative(
                    [loaded EXCEPT !.feedback = AddedFeedback(@, u, rating)])
     IN initiatives' = IF ValidRating(rating)
                       THEN [initiatives EXCEPT ![id] =
                               SaveDelta(@, loaded, local, "none", 0)]
                       ELSE initiatives
  /\ UNCHANGED <<createdInitiatives, lastLike, behind, eventVars, req, otherVars>>

\* event.addFeedback(userId, rating, comment) on the stored event id
EventAddFeedback(id, u, rating) ==
  /\ req[1].pc = "done"
  /\ FindById(events, id) # NoDoc
  /\ LET loaded == events[id]
         local == PreSaveEvent(
                    [loaded EXCEPT !.feedback = AddedFeedback(@, u, rating)])
     IN events' = IF ValidRating(rating)
                  THEN [events EXCEPT ![id] = SaveDelta(@, loaded, local, "none", 0)]
                  ELSE events
  /\ UNCHANGED <<initiativeVars, eventBody, req, otherVars>>

\* event.addAttendee(userId) on the stored event id: the push and the
\* count when the user is not in the list, then save()
EventAddAttendee(id, u) ==
  /\ req[1].pc = "done"
  /\ FindById(events, id) # NoDoc
  /\ LET loaded == events[id]
         absent == FindIndex(loaded.attendees, u) = 0
         local == PreSaveEvent(
                    IF absent
                    THEN [loaded EXCEPT
                            !.attendees = Append(@, u),
                            !.eventMetrics.totalAttendees = Len(loaded.attendees) + 1]
                    ELSE loaded)
     IN events' = [events EXCEPT ![id] =
                     SaveDelta(@, loaded, local,
                               IF absent THEN "attendees" ELSE "none", u)]
  /\ UNCHANGED <<initiativeVars, eventBody, req, otherVars>>

\* event.removeAttendee(userId) on the stored event id: the filter, the
\* count, then save()
EventRemoveAttendee(id, u) ==
  /\ req[1].pc = "done"
  /\ FindById(events, id) # NoDoc
  /\ LET loaded == events[id]
         NotU(x) == x # u
         kept == SelectSeq(loaded.attendees, NotU)
         local == PreSaveEvent(
                    [loaded EXCEPT !.attendees = kept,
                                   !.eventMetrics.totalAttendees = Len(kept)])
     IN events' = [events EXCEPT ![id] = SaveDelta(@, loaded, local, "none", 0)]
  /\ UNCHANGED <<initiativeVars, eventBody, req, otherVars>>

----------------------------------------------------------------------------
(* Donations *)

MaxDonations == 1

DonationIds == 1..MaxDonations

\* the enum of the status path
DonationStatuses == {"pending", "completed", "failed", "refunded"}

\* a transactionId that is not set; it is falsy like the empty string
NoTransaction == ""

\* the bodies of POST /donations: amount 0 fails the validation, and status
\* is a field the handler does not read
DonationBodies ==
  [initiative : InitiativeIds, amount : {0, 5}, status : {"completed"}]

\* the bodies of PUT /donations/:id/status
StatusBodies ==
  [status : {"pending", "completed", "bogus"},
   transactionId : {NoTransaction, "t1"}]

\* a constructor that copies the status of the body
NewDonationFromBody(u, body) ==
  [initiative |-> body.initiative, donor |-> u, amount |-> body.amount,
   status |-> body.status, transactionId |-> NoTransaction,
   createdAt |-> NoDate, updatedAt |-> NoDate]

\* new Donation({initiative, donor: req.user.id, amount, ..., status: 'pending'})
NewDonation(u, body) ==
  [initiative |-> body.initiative, donor |-> u, amount |-> body.amount,
   status |-> "pending", transactionId |-> NoTransaction,
   createdAt |-> NoDate, updatedAt |-> NoDate]

\* the timestamps option of the schema at save(): a new document gets
\* createdAt and updatedAt, a loaded document that was modified gets updatedAt
Stamp(loaded, local) ==
  IF loaded = NoDoc THEN [local EXCEPT !.createdAt = now, !.updatedAt = now]
  ELSE IF local # loaded THEN [local EXCEPT !.updatedAt = now]
  ELSE local

\* an update that resets the amount as well
StatusUpdateAmount(doc, body) ==
  [doc EXCEPT !.status = body.status, !.amount = 0,
              !.transactionId = IF body.transactionId # NoTransaction
                                THEN body.transactionId ELSE @]

\* donation.status = status; if (transactionId) donation.transactionId = transactionId
StatusUpdate(doc, body) ==
  [doc EXCEPT !.status = body.status,
              !.transactionId = IF body.transactionId # NoTransaction
                                THEN body.transactionId ELSE @]

\* POST /donations: the validation, Initiative.findById and the 404 answer
DonationCreateFind(s, u, body) ==
  /\ req[s].pc = "done"
  /\ Len(donations) < MaxDonations
  /\ req' = [req EXCEPT ![s] =
               IF body.amount <= 0
               THEN Respond(Start("donate", "done", u, 0, body, NoDoc), 400)
               ELSE IF FindById(initiatives, body.initiative) = NoDoc
               THEN Respond(Start("donate", "done", u, 0, body, NoDoc), 404)
               ELSE Start("donate", "save", u, 0, body, NewDonation(u, body))]
  /\ UNCHANGED <<initiativeVars, eventVars, messageVars, authReq, listing, restVars>>

\* donation.save()
DonationCreateSave(s) ==
  /\ req[s].op = "donate" /\ req[s].pc = "save"
  /\ donations' = Append(donations, Stamp(NoDoc, req[s].doc))
  /\ req' = [req EXCEPT ![s] = Respond(req[s], 200)]
  /\ UNCHANGED <<initiativeVars, eventVars, messageVars, authReq, listing,
                 statusPuts, notifications, scoreCall, userReq>>

\* PUT /donations/:id/status: the validation, the role check, Donation.findById
\* and the 404 answer
DonationStatusFind(s, u, id, body) ==
  /\ req[s].pc = "done"
  /\ IF body.status \notin DonationStatuses
     THEN /\ req' = [req EXCEPT ![s] =
                       Respond(Start("donationStatus", "done", u, id, body, NoDoc), 400)]
          /\ UNCHANGED statusPuts
     ELSE IF Role[u] # "admin"
     THEN /\ req' = [req EXCEPT ![s] =
                       Respond(Start("donationStatus", "done", u, id, body, NoDoc), 403)]
          /\ UNCHANGED statusPuts
     ELSE /\ req' = [req EXCEPT ![s] =
                       IF FindById(donations, id) = NoDoc
                       THEN Respond(Start("donationStatus", "done", u, id, body, NoDoc), 404)
                       ELSE Start("donationStatus", "save", u, id, body,
                                  FindById(donations, id))]
          /\ statusPuts' = statusPuts \cup {id}
  /\ UNCHANGED <<initiativeVars, eventVars, messageVars, authReq, listing,
                 donations, notifications, scoreCall, userReq>>

\* the assignments of status and transactionId, donation.save()
DonationStatusSave(s) ==
  /\ req[s].op = "donationStatus" /\ req[s].pc = "save"
  /\ LET r == req[s]
         local == Stamp(r.doc, StatusUpdate(r.doc, r.body))
     IN /\ donations' = [donations EXCEPT ![r.id] = SaveDelta(@, r.doc, local, "none", 0)]
        /\ req' = [req EXCEPT ![s] = Respond(r, 200)]
  /\ UNCHANGED <<initiativeVars, eventVars, messageVars, authReq, listing,
                 statusPuts, notifications, scoreCall, userReq>>

----------------------------------------------------------------------------
(* calculateImpactScore of Initiative and calculateSocialImpact of Event *)

\* the scores are Numbers; the model counts them in thousandths, which holds
\* every quotient of the two methods for whole metrics

RECURSIVE SumSeq(_)
SumSeq(terms) == IF terms = <<>> THEN 0 ELSE Head(terms) + SumSeq(Tail(terms))

\* a rounding that drops the fraction
RoundDown(thousandths) == thousandths \div 1000

\* Math.round of a Number that is not negative: halves go up
Round(thousandths) == (thousandths + 500) \div 1000

\* the five terms Math.min(metric / divisor, ceiling) of calculateImpactScore
ImpactTerms(metrics) ==
  <<Min(metrics.peopleReached * 10, 25000),
    Min(metrics.hoursVolunteered * 10, 25000),
    Min(metrics.fundsRaised, 20000),
    Min(metrics.environmentalImpact * 1000, 15000),
    Min(metrics.socialConnections * 100, 15000)>>

\* the four terms of calculateSocialImpact
SocialTerms(impact) ==
  <<Min(impact.peopleConnected * 100, 30000),
    Min(impact.knowledgeShared * 200, 25000),
    Min(impact.communityBuilding * 200, 25000),
    Min(impact.environmentalImpact * 1000, 20000)>>

calculateImpactScore(metrics) == Round(SumSeq(ImpactTerms(metrics)))

calculateSocialImpact(impact) == Round(SumSeq(SocialTerms(impact)))

\* the impactMetrics the method is called with
ImpactInputs ==
  [peopleReached : {0, 2449, 2450, 2600}, hoursVolunteered : {0, 2500, 2620},
   fundsRaised : {499, 20000}, environmentalImpact : {0, 15, 40},
   socialConnections : {5, 150}]

\* the socialImpact the method is called with
SocialInputs ==
  [peopleConnected : {0, 294, 295, 300}, knowledgeShared : {0, 125, 200},
   communityBuilding : {3, 125}, environmentalImpact : {0, 20, 33}]

ScoreInitiative(metrics) ==
  /\ scoreCall' = [method |-> "calculateImpactScore", input |-> metrics,
                   terms |-> ImpactTerms(metrics),
                   score |-> calculateImpactScore(metrics)]
  /\ UNCHANGED <<initiativeVars, eventVars, req, messageVars, authReq, listing,
                 donationVars, notifications, userReq>>

ScoreEvent(impact) ==
  /\ scoreCall' = [method |-> "calculateSocialImpact", input |-> impact,
                   terms |-> SocialTerms(impact),
                   score |-> calculateSocialImpact(impact)]
  /\ UNCHANGED <<initiativeVars, eventVars, req, messageVars, authReq, listing,
                 donationVars, notifications, userReq>>

----------------------------------------------------------------------------
(* Notifications *)

MaxNotifications == 2

NotificationIds == 1..MaxNotifications

\* the routes of the notifications router that take an :id
NotificationRoutes == {"getNotification", "readNotification", "deleteNotification"}

\* a notification as the schema stores it: the user it is for is the path
\* recipient
NewNotification(recipient) == [recipient |-> recipient, isRead |-> FALSE]

\* the system stores a notification for a user
NotificationCreate(recipient) ==
  /\ Len(notifications) < MaxNotifications
  /\ notifications' = Append(notifications, NewNotification(recipient))
  /\ UNCHANGED <<initiativeVars, eventVars, req, messageVars, authReq, listing,
                 donationVars, scoreCall, userReq>>

\* notification.user: no path of the schema, so it reads as undefined
NotificationUser(doc) == IF "user" \in DOMAIN doc THEN doc.user ELSE "undefined"

\* Notification.findById(req.params.id)
NotificationFind(s, route, u, id) ==
  /\ req[s].pc = "done"
  /\ req' = [req EXCEPT ![s] =
               Start(route, "check", u, id, NoBody, FindById(notifications, id))]
  /\ UNCHANGED <<initiativeVars, eventVars, messageVars, authReq, listing, restVars>>

\* !notification || notification.user.toString() !== req.user.id, then the
\* work of the route; toString of undefined throws a TypeError, which the
\* catch block answers with 500
NotificationCheck(s) ==
  /\ req[s].op \in NotificationRoutes /\ req[s].pc = "check"
  /\ LET r == req[s]
     IN IF r.doc = NoDoc
        THEN /\ req' = [req EXCEPT ![s] = Respond(r, 404)]
             /\ UNCHANGED notifications
        ELSE IF NotificationUser(r.doc) = "undefined"
        THEN /\ req' = [req EXCEPT ![s] = Respond(r, 500)]
             /\ UNCHANGED notifications
        ELSE IF NotificationUser(r.doc) # r.user
        THEN /\ req' = [req EXCEPT ![s] = Respond(r, 404)]
             /\ UNCHANGED notifications
        ELSE /\ notifications' =
                  [notifications EXCEPT ![r.id] =
                     CASE r.op = "readNotification" ->
                            SaveDelta(@, r.doc, [r.doc EXCEPT !.isRead = TRUE], "none", 0)
                       [] r.op = "deleteNotification" -> NoDoc
                       [] OTHER -> @]
             /\ req' = [req EXCEPT ![s] = Respond(r, 200)]
  /\ UNCHANGED <<initiativeVars, eventVars, messageVars, authReq, listing,
                 donationVars, scoreCall, userReq>>

\* the paths of the notification schema that the queries can name
NotificationPaths == {"recipient", "isRead"}

\* the cast of a filter: with strictQuery the paths that the schema does not
\* have are removed from it, without strictQuery they stay
CastFilter(filter, strictQuery) ==
  IF strictQuery
  THEN [f \in DOMAIN filter \cap NotificationPaths |-> filter[f]]
  ELSE filter

\* the stored notifications that a filter selects: a document has no value
\* for a path that is not in the schema
NotificationMatch(filter) ==
  {i \in 1..Len(notifications) :
     /\ notifications[i] # NoDoc
     /\ \A f \in DOMAIN filter :
          f \in DOMAIN notifications[i] /\ notifications[i][f] = filter[f]}

\* PUT /notifications/read-all:
\* updateMany({user: req.user.id, isRead: false}, {isRead: true})
NotificationReadAll(s, u, strictQuery) ==
  /\ req[s].pc = "done"
  /\ LET hit == NotificationMatch(CastFilter([user |-> u, isRead |-> FALSE], strictQuery))
     IN notifications' = [i \in 1..Len(notifications) |->
                            IF i \in hit
                            THEN [notifications[i] EXCEPT !.isRead = TRUE]
                            ELSE notifications[i]]
  /\ req' = [req EXCEPT ![s] =
               [Respond(Start("readAll", "done", u, 0, NoBody, NoDoc), 200)
                  EXCEPT !.user = u]]
  /\ UNCHANGED <<initiativeVars, eventVars, messageVars, authReq, listing,
                 donationVars, scoreCall, userReq>>

\* GET /notifications/unread/count:
\* countDocuments({user: req.user.id, isRead: false})
NotificationUnreadCount(s, u, strictQuery) ==
  /\ req[s].pc = "done"
  /\ LET hit == NotificationMatch(CastFilter([user |-> u, isRead |-> FALSE], strictQuery))
     IN req' = [req EXCEPT ![s] =
                  [Respond(Start("unreadCount", "done", u, 0, NoBody, NoDoc), 200)
                     EXCEPT !.user = u, !.body = [count |-> Cardinality(hit)]]]
  /\ UNCHANGED <<initiativeVars, eventVars, messageVars, authReq, listing, restVars>>

----------------------------------------------------------------------------
(* The users router *)

\* the routes of the router in the order of their registration; a path and
\* a pattern are lists of segments
UserRoutes ==
  <<[pattern |-> <<"profile">>, handler |-> "profile"],
    [pattern |-> <<":id">>, handler |-> "getUser"],
    [pattern |-> <<":id", "initiatives">>, handler |-> "userInitiatives"],
    [pattern |-> <<":id", "events">>, handler |-> "userEvents"],
    [pattern |-> <<"search">>, handler |-> "search"]>>

\* the paths of the requests: the first segment, alone or followed by a
\* second one
UserPaths ==
  LET first == Users \cup {GhostId, MalformedId, "profile", "search"}
  IN {<<a>> : a \in first}
       \cup {<<a, b>> : a \in first, b \in {"initiatives", "events", "other"}}

\* the query strings of the requests
UserQueries == [q : {"", "a"}, page : 1..2, limit : {1, 10}]

\* a parameter segment matches every segment, a literal one itself
Matches(pattern, path) ==
  /\ Len(pattern) = Len(path)
  /\ \A k \in 1..Len(pattern) : pattern[k] = ":id" \/ pattern[k] = path[k]

\* the index of the first registered route that matches, 0 when none does
RECURSIVE DispatchFrom(_, _)
DispatchFrom(path, k) ==
  IF k > Len(UserRoutes) THEN 0
  ELSE IF Matches(UserRoutes[k].pattern, path) THEN k
  ELSE DispatchFrom(path, k + 1)

Dispatch(path) == DispatchFrom(path, 1)

\* a segment that casts to an ObjectId
IsObjectId(segment) == segment \in Users \cup {GhostId}

\* the status a handler answers with; no handler calls next()
HandlerStatus(handler, path, authed) ==
  CASE handler = "profile" -> IF authed THEN 200 ELSE 401
    [] handler = "getUser" -> IF path[1] \in Users THEN 200 ELSE 404
    [] handler \in {"userInitiatives", "userEvents"} ->
         IF IsObjectId(path[1]) THEN 200 ELSE 500
    [] handler = "search" -> 200
    [] OTHER -> 404

\* a GET request on a path below /api/users: the first matching route
\* handles it and answers
UserRequest(path, query, authed) ==
  /\ LET k == Dispatch(path)
         handler == IF k = 0 THEN "none" ELSE UserRoutes[k].handler
     IN userReq' = [path |-> path, query |-> query, handler |-> handler,
                    status |-> HandlerStatus(handler, path, authed)]
  /\ UNCHANGED <<initiativeVars, eventVars, req, messageVars, authReq, listing,
                 donationVars, notifications, scoreCall>>

\* what the cast of the filter does with the element of $or that names
\* members.user or attendees.user, a path the schema does not have: it stays,
\* it is removed together with its element, or it is removed and leaves the
\* element {}
UserPathCasts == {"kept", "spliced", "emptied"}

\* the documents of a collection selected by
\* {$or: [{<owner>: id}, {'<list>.user': id}], isPublic: true}: the lists
\* hold identifiers, which have no property user, so the second element
\* selects no document when it stays and every document when it is {}
UserDocs(coll, owner, id, cast) ==
  {i \in 1..Len(coll) :
     /\ coll[i] # NoDoc
     /\ coll[i].isPublic
     /\ (coll[i][owner] = id \/ cast = "emptied")}

\* the response of a listing of the users router: the parameter and the
\* identifiers of the documents found
UserListed(op, id, found) ==
  [Respond(Start(op, "done", "none", 0, NoBody, NoDoc), 200)
     EXCEPT !.body = [param |-> id, found |-> found]]

\* GET /users/:id/initiatives
UserInitiatives(s, id, cast) ==
  /\ req[s].pc = "done"
  /\ req' = [req EXCEPT ![s] =
               UserListed("userInitiatives", id, UserDocs(initiatives, "creator", id, cast))]
  /\ UNCHANGED <<initiativeVars, eventVars, otherVars>>

\* GET /users/:id/events
UserEvents(s, id, cast) ==
  /\ req[s].pc = "done"
  /\ req' = [req EXCEPT ![s] =
               UserListed("userEvents", id, UserDocs(events, "organizer", id, cast))]
  /\ UNCHANGED <<initiativeVars, eventVars, otherVars>>

----------------------------------------------------------------------------
(* Specifications *)

\* initiatives: create, update, delete, join
NextInitiative ==
  \/ \E u \in Users, valid \in BOOLEAN : InitiativeCreateSave(1, u, valid)
  \/ InitiativeCreatePush(1)
  \/ InitiativeCreateUser(1)
  \/ \E u \in Users, id \in InitiativeIds, body \in InitiativeBodies :
       InitiativeUpdateFind(1, u, id, body)
  \/ InitiativeUpdateSet(1)
  \/ \E u \in Users, id \in InitiativeIds : InitiativeDeleteFind(1, u, id)
  \/ InitiativeDeleteRemove(1)
  \/ \E u \in Users, id \in InitiativeIds : InitiativeJoinFind(1, u, id)
  \/ InitiativeJoinPush(1)

SpecInitiative == Init /\ [][NextInitiative]_vars

\* initiatives: create, like
NextLike ==
  \/ \E u \in Users, valid \in BOOLEAN : InitiativeCreateSave(1, u, valid)
  \/ InitiativeCreatePush(1)
  \/ InitiativeCreateUser(1)
  \/ \E u \in Users, id \in InitiativeIds : InitiativeLikeFind(1, u, id)
  \/ InitiativeLikeSave(1)

SpecLike == Init /\ [][NextLike]_vars

\* events: create, update, delete, attend
NextEvent ==
  \/ \E u \in Users, body \in EventCreateBodies, valid \in BOOLEAN :
       EventCreateSave(1, u, body, valid)
  \/ EventCreatePush(1)
  \/ \E u \in Users, id \in EventIds, body \in EventBodies :
       EventUpdateFind(1, u, id, body)
  \/ EventUpdateSet(1)
  \/ \E u \in Users, id \in EventIds : EventDeleteFind(1, u, id)
  \/ EventDeleteRemove(1)
  \/ \E u \in Users, id \in EventIds : EventAttendFind(1, u, id)
  \/ EventAttendSave(1)

SpecEvent == Init /\ [][NextEvent]_vars

\* initiatives and events: create, update, delete
NextOwner ==
  \/ \E u \in Users, valid \in BOOLEAN : InitiativeCreateSave(1, u, valid)
  \/ InitiativeCreatePush(1)
  \/ InitiativeCreateUser(1)
  \/ \E u \in Users, id \in InitiativeIds, body \in InitiativeBodies :
       InitiativeUpdateFind(1, u, id, body)
  \/ InitiativeUpdateSet(1)
  \/ \E u \in Users, id \in InitiativeIds : InitiativeDeleteFind(1, u, id)
  \/ InitiativeDeleteRemove(1)
  \/ \E u \in Users, body \in OwnerCreateBodies, valid \in BOOLEAN :
       EventCreateSave(1, u, body, valid)
  \/ EventCreatePush(1)
  \/ \E u \in Users, id \in EventIds, body \in EventBodies :
       EventUpdateFind(1, u, id, body)
  \/ EventUpdateSet(1)
  \/ \E u \in Users, id \in EventIds : EventDeleteFind(1, u, id)
  \/ EventDeleteRemove(1)

SpecOwner == Init /\ [][NextOwner]_vars

\* messages: send, get, mark read, delete, inbox and sent listings
NextMessage ==
  \/ Tick
  \/ \E u \in Users, recipient \in RecipientTexts : MessageSendFind(1, u, recipient)
  \/ MessageSendSave(1)
  \/ \E u \in Users, id \in MessageIds : MessageGetFind(1, u, id)
  \/ MessageGetRead(1)
  \/ \E u \in Users, id \in MessageIds : MessageReadFind(1, u, id)
  \/ MessageReadSave(1)
  \/ \E u \in Users, id \in MessageIds : MessageDeleteFind(1, u, id)
  \/ MessageDeleteRemove(1)
  \/ \E u \in Users, unreadOnly \in BOOLEAN, page \in 1..2, limit \in {1, DefaultLimit} :
       MessageInbox(1, u, unreadOnly, page, limit)
  \/ \E u \in Users, page \in 1..2, limit \in {1, DefaultLimit} :
       MessageSent(1, u, page, limit)

SpecMessage == Init /\ [][NextMessage]_vars

\* the users of the interleaved requests
RaceUsers == {"u1", "u2"}

\* messages: two requests in flight that send, get, mark read and delete
NextMessageRace ==
  \/ Tick
  \/ \E s \in Slots, u \in RaceUsers : MessageSendFind(s, u, IdText("u2"))
  \/ \E s \in Slots : MessageSendSave(s)
  \/ \E s \in Slots, u \in RaceUsers, id \in MessageIds : MessageGetFind(s, u, id)
  \/ \E s \in Slots : MessageGetRead(s)
  \/ \E s \in Slots, u \in RaceUsers, id \in MessageIds : MessageReadFind(s, u, id)
  \/ \E s \in Slots : MessageReadSave(s)
  \/ \E s \in Slots, u \in RaceUsers, id \in MessageIds : MessageDeleteFind(s, u, id)
  \/ \E s \in Slots : MessageDeleteRemove(s)

SpecMessageRace == Init /\ [][NextMessageRace]_vars

\* the update bodies that name the feedback list or its aggregates
RatingBodies == {[feedback |-> <<>>], [totalRatings |-> 1]}

\* initiatives: create, feedback, update of the feedback paths
NextRatingPut ==
  \/ \E u \in FeedbackCreators : InitiativeCreateSave(1, u, TRUE)
  \/ InitiativeCreatePush(1)
  \/ InitiativeCreateUser(1)
  \/ \E id \in InitiativeIds, u \in FeedbackUsers, rating \in FeedbackRatings :
       InitiativeAddFeedback(id, u, rating)
  \/ \E u \in Users, id \in InitiativeIds, body \in RatingBodies :
       InitiativeUpdateFind(1, u, id, body)
  \/ InitiativeUpdateSet(1)

SpecRatingPut == Init /\ [][NextRatingPut]_vars

\* events: create, the attend and un-attend routes, addAttendee and
\* removeAttendee
NextAttendance ==
  \/ \E u \in Users, body \in OwnerCreateBodies : EventCreateSave(1, u, body, TRUE)
  \/ EventCreatePush(1)
  \/ \E u \in Users, id \in EventIds : EventAttendFind(1, u, id)
  \/ EventAttendSave(1)
  \/ \E u \in Users, id \in EventIds : EventUnattendFind(1, u, id)
  \/ EventUnattendSave(1)
  \/ \E u \in Users, id \in EventIds : EventAddAttendee(id, u)
  \/ \E u \in Users, id \in EventIds : EventRemoveAttendee(id, u)

SpecAttendance == Init /\ [][NextAttendance]_vars

\* events: create by one user, and two attend requests of the other users in
\* flight
NextAttendRace ==
  \/ \E u \in FeedbackCreators, body \in EventCreateBodies :
       EventCreateSave(1, u, body, TRUE)
  \/ EventCreatePush(1)
  \/ \E s \in Slots, u \in Users \ FeedbackCreators, id \in EventIds :
       EventAttendFind(s, u, id)
  \/ \E s \in Slots : EventAttendSave(s)

SpecAttendRace == Init /\ [][NextAttendRace]_vars

\* the middleware: auth, adminAuth, moderatorAuth
NextAuth ==
  \/ \E mw \in Middlewares, header \in Headers : AuthStart(mw, header)
  \/ AuthToken
  \/ AuthVerify
  \/ AuthUser

SpecAuth == Init /\ [][NextAuth]_vars

\* the listings
NextList ==
  \/ \E total \in 0..MaxRecords, page \in 1..MaxPage, limit \in 1..MaxLimit :
       ListFind(total, page, limit)
  \/ ListCount

SpecList == Init /\ [][NextList]_vars

\* feedback on initiatives and events
NextFeedback ==
  \/ \E u \in FeedbackCreators : InitiativeCreateSave(1, u, TRUE)
  \/ InitiativeCreatePush(1)
  \/ InitiativeCreateUser(1)
  \/ \E u \in FeedbackCreators, body \in OwnerCreateBodies :
       EventCreateSave(1, u, body, TRUE)
  \/ EventCreatePush(1)
  \/ \E id \in InitiativeIds, u \in FeedbackUsers, rating \in FeedbackRatings :
       InitiativeAddFeedback(id, u, rating)
  \/ \E id \in EventIds, u \in FeedbackUsers, rating \in FeedbackRatings :
       EventAddFeedback(id, u, rating)

SpecFeedback == Init /\ [][NextFeedback]_vars

\* events: create, attend, leave
NextAttend ==
  \/ \E u \in Users, body \in OwnerCreateBodies, valid \in BOOLEAN :
       EventCreateSave(1, u, body, valid)
  \/ EventCreatePush(1)
  \/ \E u \in Users, id \in EventIds : EventAttendFind(1, u, id)
  \/ EventAttendSave(1)
  \/ \E u \in Users, id \in EventIds : EventUnattendFind(1, u, id)
  \/ EventUnattendSave(1)

SpecAttend == Init /\ [][NextAttend]_vars

\* donations: give, set the status
NextDonation ==
  \/ Tick
  \/ \E u \in FeedbackCreators : InitiativeCreateSave(1, u, TRUE)
  \/ InitiativeCreatePush(1)
  \/ InitiativeCreateUser(1)
  \/ \E u \in FeedbackUsers, body \in DonationBodies : DonationCreateFind(1, u, body)
  \/ DonationCreateSave(1)
  \/ \E u \in Users, id \in DonationIds, body \in StatusBodies :
       DonationStatusFind(1, u, id, body)
  \/ DonationStatusSave(1)

SpecDonation == Init /\ [][NextDonation]_vars

\* events: create, set likes or attendees, attend, leave
NextEngagement ==
  \/ \E u \in Users, body \in OwnerCreateBodies : EventCreateSave(1, u, body, TRUE)
  \/ EventCreatePush(1)
  \/ \E u \in Users, id \in EventIds, body \in EngagementBodies :
       EventUpdateFind(1, u, id, body)
  \/ EventUpdateSet(1)
  \/ \E u \in Users, id \in EventIds : EventAttendFind(1, u, id)
  \/ EventAttendSave(1)
  \/ \E u \in Users, id \in EventIds : EventUnattendFind(1, u, id)
  \/ EventUnattendSave(1)

SpecEngagement == Init /\ [][NextEngagement]_vars

\* the score methods
NextScore ==
  \/ \E metrics \in ImpactInputs : ScoreInitiative(metrics)
  \/ \E impact \in SocialInputs : ScoreEvent(impact)

SpecScore == Init /\ [][NextScore]_vars

\* initiatives: every route that takes an :id
NextInitiativeId ==
  \/ \E u \in Users, valid \in BOOLEAN : InitiativeCreateSave(1, u, valid)
  \/ InitiativeCreatePush(1)
  \/ InitiativeCreateUser(1)
  \/ \E id \in InitiativeIds : InitiativeGet(1, id)
  \/ \E u \in Users, id \in InitiativeIds, body \in InitiativeBodies :
       InitiativeUpdateFind(1, u, id, body)
  \/ InitiativeUpdateSet(1)
  \/ \E u \in Users, id \in InitiativeIds : InitiativeDeleteFind(1, u, id)
  \/ InitiativeDeleteRemove(1)
  \/ \E u \in Users, id \in InitiativeIds : InitiativeJoinFind(1, u, id)
  \/ InitiativeJoinPush(1)
  \/ \E u \in Users, id \in InitiativeIds : InitiativeLikeFind(1, u, id)
  \/ InitiativeLikeSave(1)
  \/ \E u \in Users, id \in InitiativeIds, text \in CommentTexts :
       InitiativeCommentFind(1, u, id, text)
  \/ InitiativeCommentSave(1)
  \/ \E u \in Users, route \in InitiativeRoutes : InitiativeCastError(1, u, route)

SpecInitiativeId == Init /\ [][NextInitiativeId]_vars

\* notifications: get, mark read, delete, read all, unread count
NextNotification ==
  \/ \E recipient \in Users : NotificationCreate(recipient)
  \/ \E route \in NotificationRoutes, u \in Users, id \in NotificationIds :
       NotificationFind(1, route, u, id)
  \/ NotificationCheck(1)
  \/ \E u \in Users, strictQuery \in BOOLEAN : NotificationReadAll(1, u, strictQuery)
  \/ \E u \in Users, strictQuery \in BOOLEAN : NotificationUnreadCount(1, u, strictQuery)

SpecNotification == Init /\ [][NextNotification]_vars

\* the listings of a user's initiatives and events, with create and attend
NextUserLists ==
  \/ \E u \in Users, valid \in BOOLEAN : InitiativeCreateSave(1, u, valid)
  \/ InitiativeCreatePush(1)
  \/ InitiativeCreateUser(1)
  \/ \E u \in Users, body \in OwnerCreateBodies, valid \in BOOLEAN :
       EventCreateSave(1, u, body, valid)
  \/ EventCreatePush(1)
  \/ \E u \in Users, id \in EventIds : EventAttendFind(1, u, id)
  \/ EventAttendSave(1)
  \/ \E id \in Users, cast \in UserPathCasts : UserInitiatives(1, id, cast)
  \/ \E id \in Users, cast \in UserPathCasts : UserEvents(1, id, cast)

SpecUserLists == Init /\ [][NextUserLists]_vars

\* initiatives: create, and like requests handled in two slots at a time
NextLikeRace ==
  \/ \E u \in FeedbackCreators : InitiativeCreateSave(1, u, TRUE)
  \/ InitiativeCreatePush(1)
  \/ InitiativeCreateUser(1)
  \/ \E s \in Slots, u \in RaceUsers, id \in InitiativeIds : InitiativeLikeFind(s, u, id)
  \/ \E s \in Slots : InitiativeLikeSave(s)

SpecLikeRace == Init /\ [][NextLikeRace]_vars

\* the users router
NextUsers ==
  \E path \in UserPaths, query \in UserQueries, authed \in BOOLEAN :
    UserRequest(path, query, authed)

SpecUsers == Init /\ [][NextUsers]_vars

----------------------------------------------------------------------------
(* Properties *)

\* the elements of a list
Elems(seq) == {seq[i] : i \in 1..Len(seq)}

\* the sum of the ratings of a feedback list
RatingTotal(feedback) ==
  LET RECURSIVE Upto(_)
      Upto(n) == IF n = 0 THEN 0 ELSE Upto(n - 1) + feedback[n].rating
  IN Upto(Len(feedback))

\* a list without the entries of u, in order
Others(seq, u) == LET NotU(x) == x # u IN SelectSeq(seq, NotU)

\* new is the stored document old after a feedback submission: the average
\* is the mean of the ratings, the count is the length of the list, and the
\* count has not grown when the submitting user already had an entry
FeedbackAgrees(old, new) ==
  LET fb == new.feedback
      u == fb[Len(fb)].user
  IN /\ new.averageRating.num * Len(fb) = RatingTotal(fb) * new.averageRating.den
     /\ new.totalRatings = Len(fb)
     /\ \A i, j \in 1..Len(fb) : fb[i].user = fb[j].user => i = j
     /\ (\E i \in 1..Len(old.feedback) : old.feedback[i].user = u)
          => new.totalRatings <= old.totalRatings

\* C1: after every addFeedback call on an initiative or an event, the stored
\* averageRating is the arithmetic mean of the ratings in the feedback list
\* and totalRatings is the length of the list; a call by a user who already
\* has an entry replaces it, so totalRatings does not increase.
C1_FeedbackAggregates ==
  [][/\ \A id \in 1..Len(initiatives) :
          initiatives'[id].feedback # initiatives[id].feedback
            => FeedbackAgrees(initiatives[id], initiatives'[id])
     /\ \A id \in 1..Len(events) :
          events'[id].feedback # events[id].feedback
            => FeedbackAgrees(events[id], events'[id])]_vars

\* an initiative holds two ratings with the mean 7/2 and an event holds one
C1_Witness ==
  /\ \E id \in 1..Len(initiatives) :
       /\ Len(initiatives[id].feedback) = 2
       /\ initiatives[id].totalRatings = 2
       /\ initiatives[id].averageRating = [num |-> 7, den |-> 2]
  /\ \E id \in 1..Len(events) :
       /\ Len(events[id].feedback) = 1
       /\ events[id].totalRatings = 1

\* C2: a join by a user who is not a member adds the user once and answers
\* with the initiative; a join by a member is rejected with 400 and leaves
\* the member list unchanged; no user is in the member list twice.
C2_JoinAddsOnce ==
  [][(req[1].op = "join" /\ req[1].pc = "check") =>
       LET r == req[1]
           members == initiatives[r.id].members
       IN IF r.user \in Elems(members)
          THEN req'[1].status = 400 /\ initiatives' = initiatives
          ELSE /\ req'[1].status = 200
               /\ initiatives'[r.id].members = Append(members, r.user)]_vars

\* C3: for an event created with maxAttendees = N, the attend request of a
\* new user succeeds while the attendee list holds fewer than N users, and is
\* rejected with 400, the list unchanged, once it holds N.
C3_AttendUpToCapacity ==
  [][(req[1].op = "attend" /\ req[1].pc = "check"
        /\ req[1].user \notin Elems(events[req[1].id].attendees)) =>
       LET r == req[1]
           attendees == events[r.id].attendees
       IN IF Len(attendees) < eventBody[r.id].maxAttendees
          THEN /\ req'[1].status = 200
               /\ events'[r.id].attendees = Append(attendees, r.user)
          ELSE req'[1].status = 400 /\ events' = events]_vars

\* C4: a PUT or DELETE on an initiative or event by a user who is neither
\* its creator or organizer nor an admin ends with an authorization error
\* and leaves every stored document unchanged.
C4_NonOwnerRejected ==
  [][/\ (/\ req[1].op \in {"updateInitiative", "deleteInitiative"}
         /\ req[1].pc = "check"
         /\ initiatives[req[1].id].creator # req[1].user
         /\ Role[req[1].user] # "admin")
          => /\ req'[1].pc = "done"
             /\ req'[1].status \in {401, 403}
             /\ UNCHANGED <<initiatives, createdInitiatives, events>>
     /\ (/\ req[1].op \in {"updateEvent", "deleteEvent"}
         /\ req[1].pc = "check"
         /\ events[req[1].id].organizer # req[1].user
         /\ Role[req[1].user] # "admin")
          => /\ req'[1].pc = "done"
             /\ req'[1].status \in {401, 403}
             /\ UNCHANGED <<initiatives, createdInitiatives, events>>]_vars

\* an update or a delete was refused while an initiative and an event exist
C4_Witness ==
  /\ req[1].op \in {"updateInitiative", "deleteInitiative", "updateEvent", "deleteEvent"}
  /\ req[1].pc = "done"
  /\ req[1].status = 401
  /\ \E id \in 1..Len(initiatives) : initiatives[id] # NoDoc
  /\ \E id \in 1..Len(events) : events[id] # NoDoc

\* the window of a listing: the records at the positions lo..hi of the sort
\* order, where the record at position j is the (total + 1 - j)-th created
PageWindow(total, page, limit) ==
  LET lo == (page - 1) * limit + 1
      hi == IF page * limit < total THEN page * limit ELSE total
  IN IF hi < lo THEN <<>> ELSE [k \in 1..(hi - lo + 1) |-> total + 1 - (lo + k - 1)]

\* C5: a listing with page = p and limit = l over T records returns the
\* records at the positions (p-1)*l+1 .. min(p*l, T) of the sort order and
\* reports totalPages = ceil(T / l) and total = T; limit=10, page=2 on 25
\* records returns the records 11 to 20 and totalPages = 3.
C5_Pagination ==
  /\ listing.pc = "count" =>
       listing.result = PageWindow(listing.total, listing.page, listing.limit)
  /\ listing.pc = "done" =>
       /\ listing.result = PageWindow(listing.total, listing.page, listing.limit)
       /\ listing.totalOut = listing.total
       /\ listing.totalPages * listing.limit >= listing.total
       /\ (listing.totalPages - 1) * listing.limit < listing.total
  /\ (listing.pc = "done" /\ listing.total = 25 /\ listing.limit = 10
        /\ listing.page = 2) =>
       /\ listing.result = [k \in 1..10 |-> 16 - k]
       /\ listing.totalPages = 3

\* the second page of ten of 25 records has been answered
C5_Witness ==
  /\ listing.pc = "done"
  /\ listing.total = 25 /\ listing.limit = 10 /\ listing.page = 2
  /\ Len(listing.result) = 10
  /\ listing.totalPages = 3

\* C6: when the recipient marks an already read message as read, with PUT
\* /messages/:id/read or GET /messages/:id, isRead and readAt keep their
\* values.
C6_ReadIdempotent ==
  [][(/\ req[1].op \in {"markRead", "getMessage"}
      /\ req[1].pc = "check"
      /\ messages[req[1].id].recipient = req[1].user
      /\ messages[req[1].id].isRead)
       => /\ messages'[req[1].id].isRead = messages[req[1].id].isRead
          /\ messages'[req[1].id].readAt = messages[req[1].id].readAt]_vars

\* C7: in every state of the store, the creator of a stored initiative is
\* an element of its members list.
C7_CreatorInMembers ==
  \A id \in 1..Len(initiatives) :
    initiatives[id] # NoDoc => initiatives[id].creator \in Elems(initiatives[id].members)

\* the header carries a token that verifies and names a user
GoodToken(header) ==
  /\ header.present
  /\ header.token.kind = "jwt"
  /\ header.token.sig = "good"
  /\ ~header.token.expired
  /\ header.token.userId \in Users

\* C8: when the token is missing, fails verification or names no user, the
\* request ends with 401 and next is not invoked; next is invoked only after
\* req.user has been set to the resolved user.
C8_AuthBeforeHandler ==
  /\ authReq.nextCalls > 0 =>
       /\ GoodToken(authReq.header)
       /\ authReq.user = authReq.header.token.userId
  /\ (authReq.mw # "none" /\ authReq.pc = "done" /\ ~GoodToken(authReq.header)) =>
       /\ authReq.status = 401
       /\ authReq.nextCalls = 0

\* auth has refused an expired token with a good signature of a user
C8_Witness ==
  /\ authReq.mw = "auth" /\ authReq.pc = "done"
  /\ authReq.header.present
  /\ authReq.header.token.kind = "jwt"
  /\ authReq.header.token.sig = "good"
  /\ authReq.header.token.expired
  /\ authReq.header.token.userId \in Users
  /\ authReq.status = 401

\* C9: adminAuth invokes the handler only for the role admin, moderatorAuth
\* only for admin or moderator; any other authenticated role ends with 403
\* and no handler; a failed base check ends with 401, no role comparison and
\* exactly one response.
C9_RoleWrappers ==
  (authReq.mw \in {"adminAuth", "moderatorAuth"}) =>
    LET allowed == IF authReq.mw = "adminAuth" THEN {"admin"}
                   ELSE {"admin", "moderator"}
    IN /\ authReq.nextCalls > 0 =>
            /\ GoodToken(authReq.header)
            /\ Role[authReq.header.token.userId] \in allowed
       /\ (authReq.pc = "done" /\ GoodToken(authReq.header)
             /\ Role[authReq.header.token.userId] \notin allowed) =>
            /\ authReq.status = 403
            /\ authReq.nextCalls = 0
            /\ authReq.responses = 1
       /\ (authReq.pc = "done" /\ ~GoodToken(authReq.header)) =>
            /\ authReq.status = 401
            /\ ~authReq.roleChecked
            /\ authReq.nextCalls = 0
            /\ authReq.responses = 1

\* moderatorAuth has refused a plain user, and adminAuth a moderator
C9_Witness ==
  /\ authReq.pc = "done" /\ authReq.status = 403
  /\ authReq.mw = "adminAuth"
  /\ authReq.user \in Users /\ Role[authReq.user] = "moderator"

\* C10 as amended: a like call adds the caller when the caller is not in
\* likes and removes the caller otherwise, the likes of the other users are
\* unchanged, and two consecutive calls of a user restore the set of users
\* in likes, and the list itself when the caller was not in likes before
\* the first call.
C10_LikeToggles ==
  [][(req[1].op = "like" /\ req[1].pc = "toggle") =>
       LET r == req[1]
           old == initiatives[r.id].likes
           new == initiatives'[r.id].likes
       IN /\ req'[1].status = 200
          /\ (r.user \in Elems(old)) = (r.user \notin Elems(new))
          /\ Others(new, r.user) = Others(old, r.user)
          /\ \A id \in 1..Len(initiatives) : id # r.id => initiatives'[id] = initiatives[id]
          /\ (lastLike.user = r.user /\ lastLike.id = r.id) =>
               /\ Elems(new) = Elems(lastLike.before)
               /\ r.user \notin Elems(lastLike.before) => new = lastLike.before]_vars

\* C10 as stated: two consecutive like calls of a user restore the likes
\* list to its value before the first call.
C10_TwoLikesRestoreList ==
  [][(req[1].op = "like" /\ req[1].pc = "toggle"
        /\ lastLike.user = req[1].user /\ lastLike.id = req[1].id) =>
       initiatives'[req[1].id].likes = lastLike.before]_vars

\* the second of two consecutive like calls of a user has saved, among the
\* likes of another user
C10_Witness ==
  /\ lastLike.again
  /\ req[1].op = "like" /\ req[1].pc = "done" /\ req[1].status = 200
  /\ \E u \in Elems(initiatives[lastLike.id].likes) : u # lastLike.user

\* C11: POST attend by a user who is in attendees answers 400 and leaves
\* attendees unchanged, and never removes anybody; DELETE attend by a user
\* who is not in attendees answers 400 and leaves attendees unchanged; DELETE
\* attend by an attendee removes that user and nobody else.
C11_AttendIsNoToggle ==
  [][/\ (req[1].op = "attend" /\ req[1].pc = "check") =>
          LET r == req[1]
              old == events[r.id].attendees
          IN /\ Elems(old) \subseteq Elems(events'[r.id].attendees)
             /\ r.user \in Elems(old) => (req'[1].status = 400 /\ events' = events)
     /\ (req[1].op = "unattend" /\ req[1].pc = "check") =>
          LET r == req[1]
              old == events[r.id].attendees
              new == events'[r.id].attendees
          IN IF r.user \in Elems(old)
             THEN /\ req'[1].status = 200
                  /\ new = Others(old, r.user)
                  /\ Len(new) = Len(old) - 1
             ELSE req'[1].status = 400 /\ events' = events]_vars

\* the first of three attendees has left, the two others stay; before that
\* state a second attend of an attendee and a leave of a stranger were refused
C11_Witness ==
  /\ req[1].op = "unattend" /\ req[1].pc = "done" /\ req[1].status = 200
  /\ \E id \in 1..Len(events) :
       /\ Len(events[id].attendees) = 2
       /\ events[id].organizer \notin Elems(events[id].attendees)

\* C12: a donation is stored with the status pending whatever the body of
\* the request holds; the status of a stored donation differs from pending
\* only if an admin sent a PUT /donations/:id/status for it; the request of a
\* user who is no admin ends with an error response and changes no donation
\* (a status request goes on to its save only for an admin, and otherwise
\* ends at once with 400, 403 or 404).
C12_StatusByAdminOnly ==
  [][/\ \A id \in 1..Len(donations') :
          /\ id > Len(donations) => donations'[id].status = "pending"
          /\ donations'[id].status # "pending" => id \in statusPuts'
     /\ \A id \in 1..Len(donations) :
          donations'[id].status # donations[id].status =>
            /\ req[1].op = "donationStatus" /\ req[1].id = id
            /\ Role[req[1].user] = "admin"
     /\ (req[1].pc = "done" /\ req'[1] # req[1] /\ req'[1].op = "donationStatus") =>
          IF req'[1].pc = "done"
          THEN req'[1].status \in {400, 403, 404} /\ UNCHANGED donations
          ELSE Role[req'[1].user] = "admin"]_vars

\* a donation given with the status completed in its body is stored, an
\* admin has completed it, and the request of a moderator has been refused
C12_Witness ==
  /\ req[1].op = "donationStatus" /\ req[1].pc = "done" /\ req[1].status = 403
  /\ \E id \in 1..Len(donations) :
       /\ donations[id].status = "completed"
       /\ id \in statusPuts

\* what a save of the status route may change in a donation
C13_Frame(allowed) ==
  /\ \A id \in 1..Len(donations) :
       donations[id].status = "completed" =>
         /\ donations'[id].amount = donations[id].amount
         /\ donations'[id].donor = donations[id].donor
  /\ (req[1].op = "donationStatus" /\ req[1].pc = "save") =>
       /\ Len(donations') = Len(donations)
       /\ \A id \in 1..Len(donations) :
            /\ id # req[1].id => donations'[id] = donations[id]
            /\ \A f \in DOMAIN donations[id] \ allowed :
                 donations'[id][f] = donations[id][f]

RateAgrees(before, new) ==
  LET rate == new.eventMetrics.engagementRate
  IN IF Len(new.attendees) > 0
     THEN rate.num * Len(new.attendees) = Len(new.likes) * 100 * rate.den
     ELSE rate = before

\* C14: after every save of an event with a non-empty attendees list,
\* eventMetrics.engagementRate is (number of likes / number of attendees)
\* x 100 of the saved lists; a save with an empty attendees list leaves the
\* rate at its previous value.
C14_EngagementRate ==
  [][/\ (req[1].pc = "done" /\ req'[1].op = "createEvent" /\ req'[1].pc = "push") =>
          RateAgrees(EventDefaults("u1").eventMetrics.engagementRate,
                     events'[req'[1].id])
     /\ (/\ req[1].op \in {"createEvent", "attend", "unattend"}
         /\ req[1].pc \in {"push", "check"}
         /\ req'[1].status = 200) =>
          RateAgrees(events[req[1].id].eventMetrics.engagementRate,
                     events'[req[1].id])]_vars

\* an attend was saved on an event with one like: two attendees, rate 50
C14_Witness ==
  /\ req[1].op = "attend" /\ req[1].pc = "done" /\ req[1].status = 200
  /\ \E id \in 1..Len(events) :
       /\ Len(events[id].likes) = 1
       /\ Len(events[id].attendees) = 2
       /\ events[id].eventMetrics.engagementRate = [num |-> 50, den |-> 1]

\* the ceilings of the terms of a score method, in points
Ceilings(method) ==
  IF method = "calculateImpactScore" THEN <<25, 25, 20, 15, 15>>
  ELSE <<30, 25, 25, 20>>

\* every term of the call is at its ceiling
AllAtCeiling ==
  \A k \in 1..Len(scoreCall.terms) :
    scoreCall.terms[k] = Ceilings(scoreCall.method)[k] * 1000

\* the result is the capped sum rounded to the nearest whole number, halves
\* up; no term is above its ceiling; the ceilings sum to 100; the result
\* lies in 0..100
ScoreIsRoundedCappedSum ==
  LET sum == SumSeq(scoreCall.terms)
      caps == Ceilings(scoreCall.method)
  IN /\ Len(scoreCall.terms) = Len(caps)
     /\ \A k \in 1..Len(caps) :
          scoreCall.terms[k] >= 0 /\ scoreCall.terms[k] <= caps[k] * 1000
     /\ SumSeq(caps) = 100
     /\ 2 * scoreCall.score * 1000 - 1000 <= 2 * sum
     /\ 2 * sum < 2 * scoreCall.score * 1000 + 1000
     /\ scoreCall.score \in 0..100

\* C15 as amended: the score methods return the rounded sum of the capped
\* terms, the result lies in 0..100, it is 100 whenever every term reaches
\* its ceiling, and it is 100 exactly when the capped sum is at least 99.5.
C15_ScoreRange ==
  scoreCall.method # "none" =>
    /\ ScoreIsRoundedCappedSum
    /\ AllAtCeiling => scoreCall.score = 100
    /\ (scoreCall.score = 100) = (SumSeq(scoreCall.terms) >= 99500)

\* C15 as stated: the result is 100 exactly when every term reaches its
\* ceiling.
C15_HundredOnlyAtCeilings ==
  scoreCall.method # "none" =>
    /\ ScoreIsRoundedCappedSum
    /\ (scoreCall.score = 100) = AllAtCeiling

\* calculateSocialImpact has returned 100 for peopleConnected = 295, whose
\* term is 29.5, below its ceiling 30
C15_Witness ==
  /\ scoreCall.method = "calculateSocialImpact"
  /\ scoreCall.input.peopleConnected = 295
  /\ scoreCall.terms = <<29500, 25000, 25000, 20000>>
  /\ scoreCall.score = 100

\* C16: GET /messages/:id of an unread message by its recipient leaves the
\* message with isRead = true and readAt set; the same request by the sender
\* and by any other user leaves isRead and readAt unchanged.
C16_GetMarksReadForRecipient ==
  [][(req[1].op = "getMessage" /\ req[1].pc = "check" /\ req'[1].pc = "done") =>
       LET r == req[1]
           old == messages[r.id]
           new == messages'[r.id]
       IN IF old.recipient = r.user
          THEN /\ req'[1].status = 200
               /\ new.isRead
               /\ new.readAt # NoDate
               /\ ~old.isRead => new.readAt = now
          ELSE /\ new.isRead = old.isRead
               /\ new.readAt = old.readAt
               /\ req'[1].status = IF old.sender = r.user THEN 200 ELSE 403]_vars

\* the recipient has fetched the message at time 2 and no PUT has marked it
C16_Witness ==
  /\ req[1].op = "getMessage" /\ req[1].pc = "done" /\ req[1].status = 200
  /\ \E id \in 1..Len(messages) :
       /\ messages[id].isRead
       /\ messages[id].readAt = 2
       /\ messages[id].sender = "u2"

\* C17: every initiative route that takes an :id answers 404 when no
\* initiative has the identifier and when the identifier is malformed (400
\* when the comment route refuses an empty text before it looks).
C17_MissingOrMalformedIs404 ==
  [][(/\ req[1].pc = "done"
      /\ req'[1].pc = "done"
      /\ req'[1].op \in InitiativeRoutes
      /\ \/ req'[1].id = MalformedParam
         \/ \A id \in InitiativeIds : FindById(initiatives, id) = NoDoc)
       => req'[1].status \in {404, 400}]_vars

\* C18: the recipient of a notification gets it, marks it read (isRead
\* becomes true) and deletes it through the /notifications/:id routes with a
\* success response; any other user gets 404 and the notification is left
\* unchanged.
C18_RecipientScoped ==
  [][(/\ req[1].op \in NotificationRoutes
      /\ req[1].pc = "check"
      /\ req'[1].pc = "done"
      /\ FindById(notifications, req[1].id) # NoDoc) =>
       LET r == req[1]
           old == notifications[r.id]
           new == notifications'[r.id]
       IN IF old.recipient = r.user
          THEN /\ req'[1].status = 200
               /\ r.op = "getNotification" => new = old
               /\ r.op = "readNotification" => (new # NoDoc /\ new.isRead)
               /\ r.op = "deleteNotification" => new = NoDoc
          ELSE /\ req'[1].status = 404
               /\ notifications' = notifications]_vars

\* no element is in the list twice
NoDuplicate(seq) == \A i, j \in 1..Len(seq) : seq[i] = seq[j] => i = j

\* C19: a like request puts a user into likes a second time only when it
\* saves after another request saved between its read and its save (the two
\* requests interleave); a like request that saves what it has just read
\* never does. The state with the user twice in likes is reachable.
C19_DuplicateOnlyWhenInterleaved ==
  [][\A s \in Slots :
       (req[s].op = "like" /\ req[s].pc = "toggle" /\ req'[s].pc = "done") =>
         LET old == initiatives[req[s].id].likes
             new == initiatives'[req[s].id].likes
         IN (NoDuplicate(old) /\ ~NoDuplicate(new)) =>
              /\ req[s].doc.likes # old
              /\ req[s].user \in Elems(old)
              /\ req[s].user \notin Elems(req[s].doc.likes)]_vars

\* two like requests of a user have interleaved: the user is in likes twice
C19_Witness ==
  \E id \in 1..Len(initiatives) :
    /\ initiatives[id] # NoDoc
    /\ \E i, j \in 1..Len(initiatives[id].likes) :
         i # j /\ initiatives[id].likes[i] = initiatives[id].likes[j]

\* C20: a GET request for the path /search below /api/users is handled by
\* the user-search handler, which answers with the page of matching users,
\* and not by the get-user-by-id route.
C20_SearchReachesSearchHandler ==
  userReq.path = <<"search">> =>
    /\ userReq.handler = "search"
    /\ userReq.status = 200

\* C21: GET and DELETE /messages/:id by a user who is neither the sender nor
\* the recipient, and PUT /messages/:id/read by a user who is not the
\* recipient, end with 403 and leave the messages unchanged; the inbox
\* listing holds only messages whose recipient is the caller and the sent
\* listing only messages whose sender is the caller.
C21_PartiesOnly ==
  [][ /\ ( /\ req[1].pc = "check" /\ req'[1].pc = "done"
           /\ req[1].op \in {"getMessage", "deleteMessage"}
           /\ req[1].user \notin {req[1].doc.sender, req[1].doc.recipient} )
         => (req'[1].status = 403 /\ messages' = messages)
      /\ ( /\ req[1].pc = "check" /\ req'[1].pc = "done"
           /\ req[1].op = "markRead"
           /\ req[1].user # req[1].doc.recipient )
         => (req'[1].status = 403 /\ messages' = messages)
      /\ (req'[1] # req[1] /\ req'[1].op = "inbox")
         => \A k \in 1..Len(req'[1].body.messages) :
              messages'[req'[1].body.messages[k]].recipient = req'[1].user
      /\ (req'[1] # req[1] /\ req'[1].op = "sent")
         => \A k \in 1..Len(req'[1].body.messages) :
              messages'[req'[1].body.messages[k]].sender = req'[1].user
    ]_vars

\* a third user was refused the deletion of a message that is still stored
C21_Witness ==
  /\ req[1].op = "deleteMessage" /\ req[1].status = 403
  /\ Len(messages) > 0 /\ messages[1] # NoDoc

\* C22: POST /messages never stores a message whose sender equals its
\* recipient or whose recipient is no existing user.
C22_NoSelfOrGhostRecipient ==
  \A id \in 1..Len(messages) :
    messages[id] # NoDoc =>
      /\ messages[id].recipient \in Users
      /\ messages[id].recipient # messages[id].sender

\* C23: POST /initiatives/:id/comment with a non-empty text on an existing
\* initiative succeeds and inserts exactly one comment at the front of the
\* comments list, keeping the other comments in their order.
C23_CommentAtFront ==
  [][(/\ req[1].op = "comment" /\ req[1].pc = "save"
      /\ req'[1].pc = "done"
      /\ initiatives[req[1].id] # NoDoc)
       => /\ req'[1].status = 200
          /\ initiatives'[req[1].id].comments # <<>>
          /\ Tail(initiatives'[req[1].id].comments) = initiatives[req[1].id].comments
     ]_vars

\* C24: PUT /notifications/read-all by a user sets isRead to true on every
\* notification whose recipient is that user and changes no notification of
\* another user.
C24_ReadAllOwnOnly ==
  [][(req'[1] # req[1] /\ req'[1].op = "readAll")
       => \A id \in 1..Len(notifications) :
            notifications[id] # NoDoc =>
              IF notifications[id].recipient = req'[1].user
              THEN notifications'[id].isRead
              ELSE notifications'[id] = notifications[id]
     ]_vars

\* C25: GET /users/:id/events returns every public event of which the user
\* is the organizer or an attendee, and GET /users/:id/initiatives every
\* public initiative of which the user is the creator or a member.
C25_OwnedAndJoinedListed ==
  [][ /\ (req'[1] # req[1] /\ req'[1].op = "userEvents")
         => req'[1].body.found =
              {id \in 1..Len(events) :
                 /\ events[id] # NoDoc
                 /\ events[id].isPublic
                 /\ \/ events[id].organizer = req'[1].body.param
                    \/ req'[1].body.param \in Elems(events[id].attendees)}
      /\ (req'[1] # req[1] /\ req'[1].op = "userInitiatives")
         => req'[1].body.found =
              {id \in 1..Len(initiatives) :
                 /\ initiatives[id] # NoDoc
                 /\ initiatives[id].isPublic
                 /\ \/ initiatives[id].creator = req'[1].body.param
                    \/ req'[1].body.param \in Elems(initiatives[id].members)}
    ]_vars

\* C26: the read state of a stored message is monotone: no request takes
\* isRead from true back to false, and a message with isRead = true has its
\* readAt set.
C26_ReadMonotone ==
  [][\A id \in 1..Len(messages') :
       messages'[id] # NoDoc =>
         /\ (id <= Len(messages) /\ messages[id] # NoDoc /\ messages[id].isRead)
              => messages'[id].isRead
         /\ messages'[id].isRead => messages'[id].readAt # NoDate
    ]_vars

\* a message that was marked read at time 2 by PUT /messages/:id/read
C26_Witness ==
  /\ req[1].op = "markRead" /\ req[1].status = 200
  /\ Len(messages) > 0 /\ messages[1] # NoDoc
  /\ messages[1].isRead /\ messages[1].readAt = 2

\* C27: the creator of a stored initiative and the organizer of a stored
\* event never change after creation.
C27_OwnerNeverChanges ==
  [][ /\ \A id \in 1..Len(initiatives) :
           (initiatives[id] # NoDoc /\ initiatives'[id] # NoDoc)
             => initiatives'[id].creator = initiatives[id].creator
      /\ \A id \in 1..Len(events) :
           (events[id] # NoDoc /\ events'[id] # NoDoc)
             => events'[id].organizer = events[id].organizer
    ]_vars

\* the aggregates of a stored document agree with its feedback list: the
\* count is the length, the average is the mean, and both are 0 for the
\* empty list
AggregatesAgree(doc) ==
  /\ doc.totalRatings = Len(doc.feedback)
  /\ IF doc.feedback = <<>>
     THEN doc.averageRating = Quot(0, 1)
     ELSE doc.averageRating.num * Len(doc.feedback)
            = RatingTotal(doc.feedback) * doc.averageRating.den

\* C28: in every stored state, averageRating and totalRatings of an
\* initiative and of an event agree with its feedback list, also when the
\* list is empty and when the document was last written by PUT.
C28_AggregatesAgree ==
  /\ \A id \in 1..Len(initiatives) :
       initiatives[id] # NoDoc => AggregatesAgree(initiatives[id])
  /\ \A id \in 1..Len(events) :
       events[id] # NoDoc => AggregatesAgree(events[id])

\* C29: after every attend and un-attend request and every addAttendee and
\* removeAttendee call that changes the attendees of an event,
\* eventMetrics.totalAttendees is the number of attendees and no user is in
\* the list twice.
C29_TotalAttendeesAgrees ==
  [][\A id \in 1..Len(events) :
       ( /\ events[id] # NoDoc /\ events'[id] # NoDoc
         /\ events'[id].attendees # events[id].attendees
         /\ (req[1].pc = "done" \/ req[1].op \in {"attend", "unattend"}) )
         => /\ events'[id].eventMetrics.totalAttendees = Len(events'[id].attendees)
            /\ NoDuplicate(events'[id].attendees)
    ]_vars

\* C30: when attend requests by distinct users on the same capacity-limited
\* event interleave, the stored number of attendees never exceeds the
\* capacity limit the event was created with.
C30_NeverOverCapacity ==
  \A id \in 1..Len(events) :
    events[id] # NoDoc =>
      Len(events[id].attendees) <= eventBody[id].maxAttendees

====
